---- MODULE Spec2Model ----
(***************************************************************************)
(* WeatherXM MCP server: the API client (weatherxmApiRequest), the         *)
(* formatting helpers and the ten tool handlers registered by              *)
(* createStatelessServer, as a state machine of one tool invocation at a   *)
(* time, and of two invocations at a time (SpecConcurrent, SpecKeys).      *)
(*                                                                         *)
(* Representation.                                                         *)
(*  - A JavaScript string is a TLA+ string; the search query, which goes   *)
(*    through encodeURIComponent, is a sequence of UTF-16 code units.      *)
(*  - A JavaScript number is an exact rational [n |-> numerator, d |->     *)
(*    denominator > 0]; arithmetic is exact.                               *)
(*  - A thrown value is [isError, name, message].                          *)
(*  - A markdown document is the sequence of the fragments the handler     *)
(*    appends with `markdown += ...`; the text returned is their           *)
(*    concatenation.                                                       *)
(***************************************************************************)
EXTENDS Integers, Sequences, FiniteSets, TLC

VARIABLES
    config,      \* the configuration createStatelessServer was given
    pc,          \* where the invocation stands: idle, awaitFetch, awaitJson, done
    tool,        \* the tool invoked
    supplied,    \* its parameters as the caller passed them
    args,        \* its parameters after the schema's defaults
    requests,    \* the fetch calls of this invocation, in order
    response,    \* the HTTP response fetch resolved with, or NoResponse
    event,       \* what fetch did last: none, fetchRejected, errorStatus, okStatus,
                 \* bodyReadFailed, bodyNotJson, json
    apiOutcome,  \* how weatherxmApiRequest settled (value or throw), or Pending
    tried,       \* how the handler's try block ended (return or throw), or Pending
    result,      \* how the handler settled (return or throw), or Pending
    now,         \* the wall clock the handler read (ms after 2024-01-15T00:00:00Z)
    upstream,    \* what the awaits of this invocation settled with, in order: the error
                 \* fetch rejected with or the status line it resolved with, then the
                 \* error response.json() rejected with or the value it resolved with
    others,      \* the invocations under way that are not running now: each handler's
                 \* parameters and locals, and the configuration of its server
    wind,        \* a bearing, and what getWindDirection returned for it
    helper       \* a call of one of the other formatting helpers: the function, its
                 \* argument, the clock it reads, and what it returned

vars ==
    <<config, pc, tool, supplied, args, requests, response, event, apiOutcome, tried, result, now,
      upstream, others, wind, helper>>

-----------------------------------------------------------------------------
(* JavaScript primitives *)

Abs(n) == IF n < 0 THEN -n ELSE n

RECURSIVE Pow10(_)
Pow10(k) == IF k = 0 THEN 1 ELSE 10 * Pow10(k - 1)

\* String.prototype.includes
Includes(s, sub) ==
    \E i \in 1..(Len(s) - Len(sub) + 1) : SubSeq(s, i, i + Len(sub) - 1) = sub

RECURSIVE PadLeft(_, _)
PadLeft(s, k) == IF Len(s) >= k THEN s ELSE PadLeft("0" \o s, k)

RECURSIVE StripZeros(_)
StripZeros(s) ==
    IF Len(s) > 0 /\ SubSeq(s, Len(s), Len(s)) = "0"
    THEN StripZeros(SubSeq(s, 1, Len(s) - 1))
    ELSE s

RECURSIVE Join(_)
\* the text of a document: its fragments concatenated
Join(chunks) == IF chunks = <<>> THEN "" ELSE Head(chunks) \o Join(Tail(chunks))

\* numbers
R(n, d) == [n |-> n, d |-> d]
Num(n) == R(n, 1)
RECURSIVE Gcd(_, _)
Gcd(a, b) == IF b = 0 THEN a ELSE Gcd(b, a % b)
\* the same number in lowest terms
Norm(x) == LET g == Gcd(Abs(x.n), x.d) IN R(x.n \div g, x.d \div g)
Gt_OrEqual(x, y) == x.n * y.d >= y.n * x.d

\* x > y and x >= y, for numbers as they were received
Gt(x, y) == x.n * y.d > y.n * x.d
Ge(x, y) == x.n * y.d >= y.n * x.d

(* The arithmetic of the Number type. A number that was computed is the double
   itself, [neg, sig, exp]: (-1)^neg * sig * 2^exp, sig = 0 or 2^52 <= sig < 2^53.
   A significand does not fit an integer of this language: it is a sequence of
   digits in base 32768, the least significant first, the last one not 0 (0 is the
   empty sequence).
   Double(<<step, operands>>) is one step of that arithmetic; a, b, c, d, e name the
   operands of the step. *)
RECURSIVE Double(_)
Double(t) ==
    LET a == t[2]
        b == t[3]
        c == t[4]
        d == t[5]
        e == t[6]
        front(x) == SubSeq(x, 1, Len(x) - 1)
        last(x) == x[Len(x)]
    IN CASE t[1] = "times" ->
            \* a * b + c for one digit b > 0, c a carry
            IF a = <<>> THEN (IF c = 0 THEN <<>> ELSE <<c>>)
            ELSE LET s == Head(a) * b + c
                 IN <<s % 32768>> \o Double(<<"times", Tail(a), b, s \div 32768>>)
         [] t[1] = "add" ->
            \* a + b + c, c a carry
            IF a = <<>> /\ b = <<>> THEN (IF c = 0 THEN <<>> ELSE <<c>>)
            ELSE LET s == (IF a = <<>> THEN 0 ELSE Head(a))
                            + (IF b = <<>> THEN 0 ELSE Head(b)) + c
                 IN <<s % 32768>> \o Double(<<"add", IF a = <<>> THEN a ELSE Tail(a),
                                              IF b = <<>> THEN b ELSE Tail(b), s \div 32768>>)
         [] t[1] = "sub" ->
            \* a - b - c for a >= b, c a borrow
            IF a = <<>> THEN <<>>
            ELSE LET s == Head(a) - (IF b = <<>> THEN 0 ELSE Head(b)) - c
                 IN <<s % 32768>> \o Double(<<"sub", Tail(a), IF b = <<>> THEN b ELSE Tail(b),
                                              IF s < 0 THEN 1 ELSE 0>>)
         [] t[1] = "less" ->
            \* a < b for a and b of the same length, decided by the highest digit
            \* that differs
            IF a = <<>> THEN FALSE
            ELSE IF last(a) # last(b) THEN last(a) < last(b)
            ELSE Double(<<"less", front(a), front(b)>>)
         [] t[1] = "trim" ->
            IF a # <<>> /\ last(a) = 0 THEN Double(<<"trim", front(a)>>) ELSE a
         [] t[1] = "digit" ->
            \* the largest n in c..d with n * a <= b
            IF c >= d THEN c
            ELSE IF Double(<<"diff", b, Double(<<"times", a, (c + d + 1) \div 2, 0>>)>>).neg
                 THEN Double(<<"digit", a, b, c, ((c + d + 1) \div 2) - 1>>)
                 ELSE Double(<<"digit", a, b, (c + d + 1) \div 2, d>>)
         [] t[1] = "diff" ->
            \* |a - b|, and whether a < b
            Double(<<"signed", a, b,
                     IF Len(a) # Len(b) THEN Len(a) < Len(b) ELSE Double(<<"less", a, b>>)>>)
         [] t[1] = "signed" ->
            [neg |-> c,
             abs |-> Double(<<"trim", Double(<<"sub", IF c THEN b ELSE a, IF c THEN a ELSE b, 0>>)>>)]
         [] t[1] = "shl" ->
            \* a * 2^b
            IF a = <<>> THEN <<>>
            ELSE [i \in 1..(b \div 15) |-> 0] \o Double(<<"times", a, 2^(b % 15), 0>>)
         [] t[1] = "long" ->
            \* long division of a by b of two digits or more: c is the quotient so
            \* far, d the remainder so far
            IF a = <<>> THEN [q |-> c, r |-> d]
            ELSE Double(<<"next", front(a), b, c,
                          IF d = <<>> /\ last(a) = 0 THEN <<>> ELSE <<last(a)>> \o d>>)
         [] t[1] = "next" ->
            \* the next digit of the quotient is found between the bounds that the
            \* highest digits of the remainder d and of b give
            Double(<<"bounded", a, b, c, d,
                     IF Len(d) < Len(b) THEN 0
                     ELSE IF Len(d) = Len(b) THEN last(d)
                     ELSE last(d) * 32768 + d[Len(d) - 1]>>)
         [] t[1] = "bounded" ->
            Double(<<"take", a, b, c, d,
                     Double(<<"digit", b, d, e \div (last(b) + 1),
                              IF e \div last(b) > 32767 THEN 32767 ELSE e \div last(b)>>)>>)
         [] t[1] = "take" ->
            Double(<<"long", a, b,
                     IF c = <<>> /\ e = 0 THEN <<>> ELSE <<e>> \o c,
                     IF e = 0 THEN d
                     ELSE Double(<<"diff", d, Double(<<"times", b, e, 0>>)>>).abs>>)
         [] t[1] = "short" ->
            \* long division of a by one digit b from the highest digit of a down:
            \* c is the quotient so far, d the remainder so far
            IF a = <<>> THEN [q |-> c, r |-> IF d = 0 THEN <<>> ELSE <<d>>]
            ELSE Double(<<"short", front(a), b,
                          IF c = <<>> /\ d * 32768 + last(a) < b THEN <<>>
                          ELSE <<(d * 32768 + last(a)) \div b>> \o c,
                          (d * 32768 + last(a)) % b>>)
         [] t[1] = "mul" ->
            \* a * b
            IF a = <<>> \/ b = <<>> THEN <<>>
            ELSE Double(<<"add", IF Head(a) = 0 THEN <<>> ELSE Double(<<"times", b, Head(a), 0>>),
                          Double(<<"shl", Double(<<"mul", Tail(a), b>>), 15>>), 0>>)
         [] t[1] = "int" ->
            \* the integer the digits a stand for, when it fits
            IF a = <<>> THEN 0 ELSE Head(a) + 32768 * Double(<<"int", Tail(a)>>)
         [] t[1] = "of" ->
            \* the digits of the integer a >= 0
            IF a = 0 THEN <<>> ELSE <<a % 32768>> \o Double(<<"of", a \div 32768>>)
         [] t[1] = "bits" ->
            \* the number of bits of a # 0
            15 * (Len(a) - 1) + CHOOSE k \in 1..15 : 2^(k - 1) <= last(a) /\ last(a) < 2^k
         [] t[1] = "shr" ->
            \* a / 2^b without its fraction, for a >= 2^b
            Double(<<"trim",
                     [i \in 1..(Len(a) - (b \div 15)) |->
                        (a[i + (b \div 15)] \div 2^(b % 15))
                            + (IF i + (b \div 15) < Len(a)
                               THEN (a[i + (b \div 15) + 1] % 2^(b % 15)) * 2^(15 - (b % 15))
                               ELSE 0)]>>)
         [] t[1] = "divmod" ->
            \* the quotient and the remainder of a by b > 0. The low zero digits of b
            \* only move as many digits of a to the remainder
            Double(<<"split", a, b,
                     (CHOOSE i \in 1..Len(b) : b[i] # 0 /\ \A j \in 1..(i - 1) : b[j] = 0) - 1>>)
         [] t[1] = "split" ->
            IF Len(a) <= c THEN [q |-> <<>>, r |-> a]
            ELSE Double(<<"join", SubSeq(a, 1, c),
                          IF Len(b) = c + 1
                          THEN Double(<<"short", SubSeq(a, c + 1, Len(a)), last(b), <<>>, 0>>)
                          ELSE Double(<<"long", SubSeq(a, c + 1, Len(a)),
                                        SubSeq(b, c + 1, Len(b)), <<>>, <<>>>>)>>)
         [] t[1] = "join" ->
            [q |-> b.q, r |-> Double(<<"trim", a \o b.r>>)]
         [] t[1] = "nearest" ->
            \* the double nearest to (-1)^a * b/c * 2^d, a tie going to the even
            \* significand: a quotient of 55 bits or more is cut to 53, the bits cut
            \* and the remainder of the division deciding the direction
            IF b = <<>> THEN [neg |-> a, sig |-> <<>>, exp |-> 0]
            ELSE Double(<<"shifted", a, b, c, d,
                          55 + Double(<<"bits", c>>) - Double(<<"bits", b>>)>>)
         [] t[1] = "shifted" ->
            \* b is divided by c after e more bits are given to it, if it lacks any
            IF e > 0
            THEN Double(<<"cut", a, d - e, Double(<<"divmod", Double(<<"shl", b, e>>), c>>)>>)
            ELSE Double(<<"cut", a, d, Double(<<"divmod", b, c>>)>>)
         [] t[1] = "cut" ->
            Double(<<"round", a, b, c.q, c.r # <<>>, Double(<<"bits", c.q>>) - 53>>)
         [] t[1] = "round" ->
            \* c is the quotient, d tells that a remainder is left, e bits are cut
            LET bit(i) == (c[(i \div 15) + 1] \div 2^(i % 15)) % 2
            IN Double(<<"finish", a, b + e,
                        IF /\ bit(e - 1) = 1
                           /\ \/ d
                              \/ \E i \in 0..(e - 2) : bit(i) = 1
                              \/ bit(e) = 1
                        THEN Double(<<"add", Double(<<"shr", c, e>>), <<1>>, 0>>)
                        ELSE Double(<<"shr", c, e>>)>>)
         [] t[1] = "finish" ->
            IF Double(<<"bits", c>>) > 53
            THEN [neg |-> a, sig |-> <<0, 0, 0, 128>>, exp |-> b + 1]
            ELSE [neg |-> a, sig |-> c, exp |-> b]
         [] t[1] = "double" ->
            \* the double a number stands for: R(n, d) is the double nearest to n/d
            IF "sig" \in DOMAIN a THEN a
            ELSE Double(<<"nearest", a.n < 0, Double(<<"of", Abs(a.n)>>),
                          Double(<<"of", a.d>>), 0>>)
         [] t[1] = "*" ->
            Double(<<"product", Double(<<"double", a>>), Double(<<"double", b>>)>>)
         [] t[1] = "product" ->
            Double(<<"nearest", a.neg # b.neg, Double(<<"mul", a.sig, b.sig>>), <<1>>,
                     a.exp + b.exp>>)
         [] t[1] = "/" ->
            Double(<<"quotient", Double(<<"double", a>>), Double(<<"double", b>>)>>)
         [] t[1] = "quotient" ->
            Double(<<"nearest", a.neg # b.neg, a.sig, b.sig, a.exp - b.exp>>)
         [] t[1] = "+" ->
            Double(<<"sum", Double(<<"double", a>>), Double(<<"double", b>>)>>)
         [] t[1] = "sum" ->
            IF a.sig = <<>> THEN b
            ELSE IF b.sig = <<>> THEN a
            ELSE Double(<<"aligned", a, b, IF a.exp < b.exp THEN a.exp ELSE b.exp>>)
         [] t[1] = "aligned" ->
            \* a.sig * 2^(a.exp - c) and b.sig * 2^(b.exp - c) are |a| and |b| in units
            \* of 2^c
            IF a.neg = b.neg
            THEN Double(<<"nearest", a.neg,
                          Double(<<"add", Double(<<"shl", a.sig, a.exp - c>>),
                                   Double(<<"shl", b.sig, b.exp - c>>), 0>>), <<1>>, c>>)
            ELSE Double(<<"cancelled", a.neg,
                          Double(<<"diff", Double(<<"shl", a.sig, a.exp - c>>),
                                   Double(<<"shl", b.sig, b.exp - c>>)>>), c>>)
         [] t[1] = "cancelled" ->
            Double(<<"nearest", b.abs # <<>> /\ a # b.neg, b.abs, <<1>>, c>>)
         [] t[1] = "ceil" ->
            Double(<<"whole", Double(<<"double", a>>)>>)
         [] t[1] = "whole" ->
            \* the least integer that is not under the double a
            IF a.exp >= 0
            THEN (IF a.neg THEN -1 ELSE 1) * Double(<<"int", Double(<<"shl", a.sig, a.exp>>)>>)
            ELSE Double(<<"above", a.neg,
                          Double(<<"divmod", a.sig, Double(<<"shl", <<1>>, -a.exp>>)>>)>>)
         [] t[1] = "above" ->
            IF a THEN -Double(<<"int", b.q>>)
            ELSE IF b.r # <<>> THEN Double(<<"int", b.q>>) + 1
            ELSE Double(<<"int", b.q>>)
         [] t[1] = "fixed" ->
            \* the sign of a and the integer nearest to |a| * 10^b, the larger one
            \* when two are as near
            Double(<<"scaled", Double(<<"double", a>>), Double(<<"of", 10^b>>)>>)
         [] t[1] = "scaled" ->
            IF a.exp >= 0
            THEN [neg |-> a.neg /\ a.sig # <<>>,
                  n |-> Double(<<"int", Double(<<"shl", Double(<<"mul", a.sig, b>>), a.exp>>)>>)]
            ELSE Double(<<"half", a,
                          Double(<<"divmod", Double(<<"mul", a.sig, b>>),
                                   Double(<<"shl", <<1>>, -a.exp>>)>>)>>)
         [] t[1] = "half" ->
            [neg |-> a.neg /\ a.sig # <<>>,
             n |-> Double(<<"int", b.q>>)
                    + (IF b.r = <<>> \/ Double(<<"diff", b.r, Double(<<"shl", <<1>>, -a.exp - 1>>)>>).neg
                       THEN 0 ELSE 1)]

\* x * y, x / y for y # 0, and x + y
Mul(x, y) == Double(<<"*", x, y>>)
Div(x, y) == Double(<<"/", x, y>>)
Add(x, y) == Double(<<"+", x, y>>)

(* Numbers are IEEE-754 doubles. R(n, d) stands for the double nearest to n/d, and
   Near(x, k) for the double k units in the last place from x, where x is a dyadic
   number of a few bits (so x itself is a double, with an even significand) and k is
   small. Sums and quotients of such numbers are computed as the hardware computes
   them: the exact result, rounded to the nearest double, a tie going to the even
   significand. *)
Near(x, k) == IF k = 0 THEN R(x.n, x.d) ELSE [n |-> x.n, d |-> x.d, ulps |-> k]
Ulps(x) == IF "ulps" \in DOMAIN x THEN x.ulps ELSE 0

RECURSIVE FloorLog2(_)
FloorLog2(x) ==
    IF x.n >= 2 * x.d THEN FloorLog2(R(x.n, 2 * x.d)) + 1
    ELSE IF x.n < x.d THEN FloorLog2(R(2 * x.n, x.d)) - 1
    ELSE 0

\* the exponent of the binade that holds x > 0 (one unit in its last place is
\* 2^(Exponent(x) - 52)): a number just under a power of two is in the binade below
Exponent(x) ==
    LET e == FloorLog2(x)
        isPowerOfTwo == IF e >= 0 THEN x.n = x.d * 2^e ELSE x.n * 2^(-e) = x.d
    IN IF Ulps(x) < 0 /\ isPowerOfTwo THEN e - 1 ELSE e

\* p/q (q > 0) rounded to the nearest integer, a tie going to the even one
RoundTiesEven(p, q) ==
    LET f == p \div q
        r == p % q
    IN IF 2 * r < q THEN f
       ELSE IF 2 * r > q THEN f + 1
       ELSE IF f % 2 = 0 THEN f ELSE f + 1

\* x + y for exact y > 0: k units of x are k / 2^(es - ex) units of the sum
DoubleAdd(x, y) ==
    LET sum == Norm(R(x.n * y.d + y.n * x.d, x.d * y.d))
        k == Ulps(x)
    IN IF k = 0 THEN sum
       ELSE Near(sum, RoundTiesEven(k, 2^(Exponent(Near(sum, k)) - Exponent(x))))

\* x / y for exact y > 0. A quotient n/d that is not dyadic stays the rational n/d:
\* it is at least 1/(2d) from every half-integer, its rounding error is below
\* 2^-40, so Math.round cannot tell the two apart.
DoubleDiv(x, y) ==
    LET quotient == Norm(R(x.n * y.d, x.d * y.n))
        k == Ulps(x)
        isDyadic == quotient.d = 2^FloorLog2(R(quotient.d, 1))
        shift == Exponent(x) - Exponent(Near(quotient, k))
    IN IF k = 0 \/ ~isDyadic THEN quotient
       ELSE Near(quotient,
                 RoundTiesEven(k * y.d * (IF shift >= 0 THEN 2^shift ELSE 1),
                               y.n * (IF shift < 0 THEN 2^(-shift) ELSE 1)))

\* Math.round: the nearest integer, a tie going up; a number just under a tie
\* goes down
MathRound(x) ==
    LET up == (2 * x.n + x.d) \div (2 * x.d)
        tie == (2 * x.n + x.d) % (2 * x.d) = 0
    IN IF Ulps(x) < 0 /\ tie THEN up - 1 ELSE up
\* Math.ceil
MathCeil(x) == Double(<<"ceil", x>>)

JsRem(a, b) == IF a >= 0 THEN a % b ELSE -((-a) % b)

toFixed_Unpadded(x, k) ==
    LET shown(r) ==
            (IF r.neg THEN "-" ELSE "") \o ToString(r.n \div Pow10(k))
                \o (IF k = 0 THEN "" ELSE "." \o ToString(r.n % Pow10(k)))
    IN shown(Double(<<"fixed", x, k>>))

\* Number.prototype.toFixed(k): the integer n nearest to |x| * 10^k, the larger
\* one when two are as near, printed with k decimals, the sign of x < 0 kept
toFixed(x, k) ==
    LET shown(r) ==
            (IF r.neg THEN "-" ELSE "") \o ToString(r.n \div Pow10(k))
                \o (IF k = 0 THEN "" ELSE "." \o PadLeft(ToString(r.n % Pow10(k)), k))
    IN shown(Double(<<"fixed", x, k>>))

RECURSIVE Log10(_)
Log10(d) == IF d <= 1 THEN 0 ELSE 1 + Log10(d \div 10)

\* Number::toString of a decimal (d a power of ten): no trailing zeros
NumStr(x) ==
    LET k == Log10(x.d)
        ip == Abs(x.n) \div x.d
        fp == StripZeros(PadLeft(ToString(Abs(x.n) % x.d), k))
    IN (IF x.n < 0 THEN "-" ELSE "") \o ToString(ip)
         \o (IF fp = "" THEN "" ELSE "." \o fp)

\* thrown values
Err(name, message) == [isError |-> TRUE, name |-> name, message |-> message]
Throw(e) == [kind |-> "throw", error |-> e]
Value(v) == [kind |-> "value", value |-> v]
Pending == [kind |-> "pending"]

\* the document so far handed back instead of the exception
PropertyOfUndefined_Partial(prop) ==
    [kind |-> "return",
     content |-> <<[type |-> "text", text |-> <<"# Weather\n\n", "undefined\n">>]>>]

\* reading a property of undefined or null (V8's message)
PropertyOfUndefined(prop) ==
    Throw(Err("TypeError", "Cannot read properties of undefined (reading '" \o prop \o "')"))
PropertyOfNull(prop) ==
    Throw(Err("TypeError", "Cannot read properties of null (reading '" \o prop \o "')"))

\* JSON values that may be absent
Undefined == [tag |-> "undefined"]
JsonNull == [tag |-> "null"]
IsUndef(v) == v.tag = "undefined"
Arr(items) == [tag |-> "array", items |-> items]
\* `x || []`
OrEmpty(v) == IF v.tag = "array" THEN v.items ELSE <<>>

-----------------------------------------------------------------------------
(* API client: weatherxmApiRequest *)

WEATHERXM_API_BASE == "https://pro.weatherxm.com/api/v1"
USER_AGENT == "WeatherXM-MCP-Server/1.0.0"

\* the one fetch call: the URL and the headers
FetchCall(endpoint, apiKey) ==
    [url |-> WEATHERXM_API_BASE \o endpoint,
     headers |-> [UserAgent |-> USER_AGENT,
                  Accept |-> "application/json",
                  XApiKey |-> apiKey]]

\* the runtime's fetch builds the request's Headers before anything is sent: a value
\* with a line feed inside is not a header value (white space at the ends is
\* stripped first), and fetch rejects with the TypeError of Headers.append, which
\* quotes the value (Node's fetch)
isValidHeaderValue(value) == ~Includes(value, "\n")
InvalidHeaderValue(value) ==
    Err("TypeError", "Headers.append: \"" \o value \o "\" is an invalid header value.")

\* response.ok
ResponseOk(status) == status >= 200 /\ status <= 299

MsgInvalidApiKey == "Invalid API key. Please check your WeatherXM API key."
MsgNotFound == "Station not found or no data available"
MsgRateLimited == "API rate limit exceeded. Please try again later."
MsgServiceUnavailable == "WeatherXM service temporarily unavailable"
MsgNetworkUnavailable ==
    "Unable to connect to WeatherXM service. Please check your internet connection."
MsgUpstream(status, statusText) ==
    "WeatherXM API error: " \o ToString(status) \o " " \o statusText

\* StatusError with the 404 and 429 messages exchanged
StatusError_Swapped(status, statusText) ==
    IF status = 401 THEN Err("Error", MsgInvalidApiKey)
    ELSE IF status = 404 THEN Err("Error", MsgRateLimited)
    ELSE IF status = 429 THEN Err("Error", MsgNotFound)
    ELSE IF status = 500 THEN Err("Error", MsgServiceUnavailable)
    ELSE Err("Error", MsgUpstream(status, statusText))

\* the error thrown inside the try block for a response that is not ok
StatusError(status, statusText) ==
    IF status = 401 THEN Err("Error", MsgInvalidApiKey)
    ELSE IF status = 404 THEN Err("Error", MsgNotFound)
    ELSE IF status = 429 THEN Err("Error", MsgRateLimited)
    ELSE IF status = 500 THEN Err("Error", MsgServiceUnavailable)
    ELSE Err("Error", MsgUpstream(status, statusText))

\* the catch block: whatever was thrown inside the try, the status errors included
ClientCatch(error) ==
    IF error.isError /\ Includes(error.message, "fetch")
    THEN Throw(Err("Error", MsgNetworkUnavailable))
    ELSE Throw(error)

\* how weatherxmApiRequest settles once fetch resolved with a response that is not ok
ApiOnErrorStatus(status, statusText) == ClientCatch(StatusError(status, statusText))
\* ... once fetch rejected
ApiOnFetchRejected(error) == ClientCatch(error)
\* ... once response.json() rejected
ApiOnJsonRejected(error) == ClientCatch(error)
\* ... once response.json() resolved
ApiOnJson(data) == Value(data)

-----------------------------------------------------------------------------
(* Formatting helpers *)

formatTemperature_FiveNinths(tempC) ==
    LET tempF == Add(Div(Mul(tempC, Num(5)), Num(9)), Num(32))
    IN toFixed(tempF, 1) \o "°F (" \o toFixed(tempC, 1) \o "°C)"

formatTemperature(tempC) ==
    LET tempF == Add(Div(Mul(tempC, Num(9)), Num(5)), Num(32))
    IN toFixed(tempF, 1) \o "°F (" \o toFixed(tempC, 1) \o "°C)"

formatWindSpeed(windSpeedMs) ==
    toFixed(Mul(windSpeedMs, R(2237, 1000)), 1) \o " mph"

formatPressure(pressureHpa) ==
    toFixed(Mul(pressureHpa, R(2953, 100000)), 2) \o " inHg"

formatPrecipitation(mm) ==
    toFixed(Div(mm, R(254, 10)), 2) \o " in"

directions ==
    <<"N", "NNE", "NE", "ENE", "E", "ESE", "SE", "SSE",
      "S", "SSW", "SW", "WSW", "W", "WNW", "NW", "NNW">>

\* an index that truncates the quotient instead of rounding it
WindIndex_Truncating(degrees) ==
    LET q == DoubleDiv(degrees, R(225, 10)) IN JsRem(q.n \div q.d, 16)

\* the index getWindDirection computes
WindIndex(degrees) == JsRem(MathRound(DoubleDiv(degrees, R(225, 10))), 16)

\* directions[index]; an index outside the array reads undefined, which a
\* template literal prints as "undefined"
getWindDirection(degrees) ==
    LET index == WindIndex(degrees)
    IN IF index >= 0 /\ index < Len(directions) THEN directions[index + 1] ELSE "undefined"

\* new Date(timestamp).getTime(), in milliseconds after 2024-01-15T00:00:00Z
DateParse(timestamp) ==
    CASE timestamp = "2024-01-15T09:05:00Z" -> 32700000
      [] timestamp = "2024-01-15T14:30:00Z" -> 52200000
      [] timestamp = "2024-01-16T00:00:00Z" -> 86400000

\* Date.prototype.toLocaleString("en-US", {year, month: short, day, hour, minute:
\* 2-digit, hour12}) of an instant of January 2024 on or after the 15th, in a host
\* whose time zone is UTC
ToLocaleString(ms) ==
    LET day == 15 + ms \div 86400000
        h24 == (ms \div 3600000) % 24
        h12 == IF h24 % 12 = 0 THEN 12 ELSE h24 % 12
        mm == (ms \div 60000) % 60
    IN "Jan " \o ToString(day) \o ", 2024, " \o ToString(h12) \o ":"
         \o PadLeft(ToString(mm), 2) \o (IF h24 < 12 THEN " AM" ELSE " PM")

formatLocalTime(timestamp) == ToLocaleString(DateParse(timestamp))

\* formatTimeAgo with minutes counted up to and including 60
formatTimeAgo_SixtyMinutes(timestamp, nowMs) ==
    LET diffMs == nowMs - DateParse(timestamp)
        diffMinutes == diffMs \div (1000 * 60)
    IN IF diffMinutes < 1 THEN "just now"
       ELSE IF diffMinutes <= 60 THEN ToString(diffMinutes) \o "m ago"
       ELSE LET hours == diffMinutes \div 60
                minutes == diffMinutes % 60
            IN IF minutes = 0 THEN ToString(hours) \o "h ago"
               ELSE ToString(hours) \o "h " \o ToString(minutes) \o "m ago"

\* formatTimeAgo, the clock read being `nowMs`
formatTimeAgo(timestamp, nowMs) ==
    LET diffMs == nowMs - DateParse(timestamp)
        diffMinutes == diffMs \div (1000 * 60)
    IN IF diffMinutes < 1 THEN "just now"
       ELSE IF diffMinutes < 60 THEN ToString(diffMinutes) \o "m ago"
       ELSE LET hours == diffMinutes \div 60
                minutes == diffMinutes % 60
            IN IF minutes = 0 THEN ToString(hours) \o "h ago"
               ELSE ToString(hours) \o "h " \o ToString(minutes) \o "m ago"

\* iconMap[icon] || "Unknown"; a key the object literal does not define is looked
\* up on Object.prototype, whose members are truthy
getWeatherIconDescription(icon) ==
    CASE icon = "clear-day" -> "Clear"
      [] icon = "clear-night" -> "Clear"
      [] icon = "partly-cloudy-day" -> "Partly Cloudy"
      [] icon = "partly-cloudy-night" -> "Partly Cloudy"
      [] icon = "cloudy" -> "Cloudy"
      [] icon = "fog" -> "Foggy"
      [] icon = "rain" -> "Rainy"
      [] icon = "sleet" -> "Sleet"
      [] icon = "snow" -> "Snowy"
      [] icon = "wind" -> "Windy"
      [] icon = "thunderstorm" -> "Thunderstorm"
      [] icon \in {"constructor", "toString", "valueOf", "hasOwnProperty"} ->
            "function " \o (IF icon = "constructor" THEN "Object" ELSE icon)
                \o "() { [native code] }"
      [] OTHER -> "Unknown"

-----------------------------------------------------------------------------
(* encodeURIComponent, on UTF-16 code units *)

\* the printable ASCII characters, codes 32 to 126 (code 96, the grave accent,
\* cannot be written in a string of this language: a "?" holds its place)
Ascii ==
    " !\"#$%&'()*+,-./0123456789:;<=>?@ABCDEFGHIJKLMNOPQRSTUVWXYZ[\\]^_?abcdefghijklmnopqrstuvwxyz{|}~"
\* the character of a printable ASCII code
Chr(c) == SubSeq(Ascii, c - 31, c - 31)
HexDigit(v) == SubSeq("0123456789ABCDEF", v + 1, v + 1)
PercentByte(b) == "%" \o HexDigit(b \div 16) \o HexDigit(b % 16)

IsHighSurrogate(c) == c >= 55296 /\ c <= 56319
IsLowSurrogate(c) == c >= 56320 /\ c <= 57343
\* A-Z a-z 0-9 - _ . ! ~ * ' ( )
IsUnreserved(c) ==
    \/ c >= 65 /\ c <= 90
    \/ c >= 97 /\ c <= 122
    \/ c >= 48 /\ c <= 57
    \/ c \in {45, 95, 46, 33, 126, 42, 39, 40, 41}

\* the UTF-8 octets of a code point, percent-encoded
PercentUtf8(cp) ==
    IF cp < 128 THEN PercentByte(cp)
    ELSE IF cp < 2048 THEN PercentByte(192 + cp \div 64) \o PercentByte(128 + (cp % 64))
    ELSE IF cp < 65536 THEN
        PercentByte(224 + cp \div 4096) \o PercentByte(128 + ((cp \div 64) % 64))
            \o PercentByte(128 + (cp % 64))
    ELSE PercentByte(240 + cp \div 262144) \o PercentByte(128 + ((cp \div 4096) % 64))
            \o PercentByte(128 + ((cp \div 64) % 64)) \o PercentByte(128 + (cp % 64))

\* whether every surrogate of the string is half of a pair
RECURSIVE IsWellFormed(_)
IsWellFormed(units) ==
    IF units = <<>> THEN TRUE
    ELSE IF IsLowSurrogate(Head(units)) THEN FALSE
    ELSE IF IsHighSurrogate(Head(units)) THEN
        /\ Len(units) >= 2
        /\ IsLowSurrogate(units[2])
        /\ IsWellFormed(Tail(Tail(units)))
    ELSE IsWellFormed(Tail(units))

RECURSIVE EncodeUnits(_)
EncodeUnits(units) ==
    IF units = <<>> THEN ""
    ELSE LET c == Head(units)
         IN IF IsHighSurrogate(c)
            THEN PercentUtf8(65536 + (c - 55296) * 1024 + (units[2] - 56320))
                    \o EncodeUnits(Tail(Tail(units)))
            ELSE (IF IsUnreserved(c) THEN Chr(c) ELSE PercentUtf8(c))
                    \o EncodeUnits(Tail(units))

\* the string as a template literal prints it; a code unit outside printable
\* ASCII is written \uXXXX here
RECURSIVE UnitsText(_)
UnitsText(units) ==
    IF units = <<>> THEN ""
    ELSE LET c == Head(units)
         IN (IF c >= 32 /\ c <= 126 THEN Chr(c)
             ELSE "\\u" \o HexDigit(c \div 4096) \o HexDigit((c \div 256) % 16)
                    \o HexDigit((c \div 16) % 16) \o HexDigit(c % 16))
              \o UnitsText(Tail(units))

\* the query put into the URL as it is, nothing encoded and nothing thrown
encodeURIComponent_Raw(units) == Value(UnitsText(units))

\* encodeURIComponent: a lone surrogate throws URIError
encodeURIComponent(units) ==
    IF IsWellFormed(units) THEN Value(EncodeUnits(units))
    ELSE Throw(Err("URIError", "URI malformed"))

-----------------------------------------------------------------------------
(* Tools, their parameters and their endpoints *)

Tools ==
    {"get_current_weather", "get_hourly_forecast", "get_daily_forecast",
     "get_historical_weather", "get_weather_alerts", "find_weather_stations",
     "search_weather_stations", "get_weather_cells", "get_station_health",
     "get_station_local_time"}

\* a parameter the caller left out
Omitted == [omitted |-> TRUE]
\* z.number().optional().default(dflt)
Default(v, dflt) == IF v = Omitted THEN dflt ELSE v

\* a schema that brings hours and limit into their documented ranges
ParseArgs_Clamped(t, raw) ==
    CASE t = "get_hourly_forecast" ->
            [raw EXCEPT !.hours = IF @ = Omitted \/ @.n > 48 * @.d THEN Num(48) ELSE @]
      [] t = "get_daily_forecast" -> [raw EXCEPT !.days = Default(@, Num(7))]
      [] t \in {"find_weather_stations", "get_weather_cells"} ->
            [raw EXCEPT !.radius = Default(@, Num(50))]
      [] t = "search_weather_stations" ->
            [raw EXCEPT !.page = Default(@, Num(1)),
                        !.limit = IF @ = Omitted THEN Num(10)
                                  ELSE IF @.n > 50 * @.d THEN Num(50) ELSE @]
      [] OTHER -> raw

\* the parameters the handler receives: the schema's defaults applied, nothing
\* range-checked
ParseArgs(t, raw) ==
    CASE t = "get_hourly_forecast" -> [raw EXCEPT !.hours = Default(@, Num(48))]
      [] t = "get_daily_forecast" -> [raw EXCEPT !.days = Default(@, Num(7))]
      [] t \in {"find_weather_stations", "get_weather_cells"} ->
            [raw EXCEPT !.radius = Default(@, Num(50))]
      [] t = "search_weather_stations" ->
            [raw EXCEPT !.page = Default(@, Num(1)), !.limit = Default(@, Num(10))]
      [] OTHER -> raw

\* the endpoint string the handler builds (or the exception building it throws)
Endpoint(t, a) ==
    CASE t \in {"get_current_weather", "get_station_health", "get_station_local_time"} ->
            Value("/stations/" \o a.station_id \o "/latest")
      [] t = "get_hourly_forecast" ->
            Value("/stations/" \o a.station_id \o "/forecast/hourly?hours=" \o NumStr(a.hours))
      [] t = "get_daily_forecast" ->
            Value("/stations/" \o a.station_id \o "/forecast/daily?days=" \o NumStr(a.days))
      [] t = "get_historical_weather" ->
            Value("/stations/" \o a.station_id \o "/historical?start=" \o a.start_date
                    \o "&end=" \o a.end_date)
      [] t = "get_weather_alerts" ->
            Value("/alerts?lat=" \o NumStr(a.latitude) \o "&lon=" \o NumStr(a.longitude))
      [] t = "find_weather_stations" ->
            Value("/stations?lat=" \o NumStr(a.latitude) \o "&lon=" \o NumStr(a.longitude)
                    \o "&radius=" \o NumStr(a.radius))
      [] t = "search_weather_stations" ->
            LET q == encodeURIComponent(a.query)
            IN IF q.kind = "throw" THEN q
               ELSE Value("/stations/search?q=" \o q.value \o "&page=" \o NumStr(a.page)
                            \o "&limit=" \o NumStr(a.limit))
      [] t = "get_weather_cells" ->
            Value("/cells?lat=" \o NumStr(a.latitude) \o "&lon=" \o NumStr(a.longitude)
                    \o "&radius=" \o NumStr(a.radius))

-----------------------------------------------------------------------------
(* What the upstream may answer *)

MaxForecast == 2
MaxHistory == 11
MaxList == 2

SeqsUpTo(S, n) == UNION {[1..k -> S] : k \in 0..n}

Location1 ==
    [tag |-> "object", lat |-> R(379838, 10000), lon |-> R(237275, 10000),
     elevation |-> Num(70)]

ObsCalm ==
    [tag |-> "object", timestamp |-> "2024-01-15T09:05:00Z",
     temperature |-> R(215, 10), feels_like |-> R(203, 10), dew_point |-> R(98, 10),
     precipitation_rate |-> Num(0), precipitation_accumulated |-> Num(0),
     humidity |-> Num(65), wind_speed |-> R(32, 10), wind_gust |-> R(32, 10),
     wind_direction |-> Num(180), uv_index |-> Num(0), pressure |-> R(101325, 100),
     solar_irradiance |-> Num(0), icon |-> "clear-night"]

ObsStorm ==
    [tag |-> "object", timestamp |-> "2024-01-15T14:30:00Z",
     temperature |-> R(-45, 10), feels_like |-> R(-112, 10), dew_point |-> R(-60, 10),
     precipitation_rate |-> R(254, 10), precipitation_accumulated |-> R(127, 10),
     humidity |-> R(925, 10), wind_speed |-> Num(10), wind_gust |-> R(185, 10),
     wind_direction |-> R(3375, 10), uv_index |-> R(25, 10), pressure |-> R(9876, 10),
     solar_irradiance |-> R(1204, 10), icon |-> "thunderstorm"]

\* a breeze whose gusts are below the sustained speed, under a bright overcast sky
\* (UV but no irradiance reading), after rain that has stopped; the temperature is
\* reported to the hundredth of a degree
ObsAfterRain ==
    [tag |-> "object", timestamp |-> "2024-01-16T00:00:00Z",
     temperature |-> R(35, 100), feels_like |-> R(-21, 10), dew_point |-> R(-4, 10),
     precipitation_rate |-> Num(0), precipitation_accumulated |-> R(2, 10),
     humidity |-> Num(88), wind_speed |-> Num(5), wind_gust |-> Num(3),
     wind_direction |-> Num(45), uv_index |-> R(15, 10), pressure |-> R(10081, 10),
     solar_irradiance |-> Num(0), icon |-> "cloudy"]

Observations == {ObsCalm, ObsStorm, ObsAfterRain}

\* data-quality scores on both sides of each threshold
Scores == {R(n, 100000) : n \in {0, 39999, 40000, 59999, 60000, 79999, 80000, 100000}}

HealthOf(score) ==
    [tag |-> "object", timestamp |-> "2024-01-15T14:30:00Z",
     data_quality |-> [score |-> score],
     location_quality |-> [score |-> R(9, 10), reason |-> "LOCATION_NOT_VERIFIED"]]

\* the bodies of /stations/{id}/latest: null, or an object any of whose three
\* members may be missing
LatestBodies ==
    {JsonNull} \cup
    [tag : {"object"},
     observation : Observations \cup {Undefined},
     location : {Location1, Undefined},
     health : {HealthOf(sc) : sc \in Scores} \cup {Undefined}]

HourCalm ==
    [timestamp |-> "2024-01-15T14:30:00Z", precipitation |-> Num(0),
     precipitation_probability |-> R(5, 100), temperature |-> R(215, 10),
     icon |-> "partly-cloudy-day", wind_speed |-> R(32, 10), wind_direction |-> Num(90),
     humidity |-> Num(65), pressure |-> Num(1013), uv_index |-> R(31, 10),
     feels_like |-> R(203, 10)]

HourRain ==
    [timestamp |-> "2024-01-15T09:05:00Z", precipitation |-> R(254, 10),
     precipitation_probability |-> R(85, 100), temperature |-> R(78, 10),
     icon |-> "rain", wind_speed |-> Num(10), wind_direction |-> R(1125, 100),
     humidity |-> Num(93), pressure |-> R(9982, 10), uv_index |-> Num(0),
     feels_like |-> R(51, 10)]

DaySunny ==
    [temperature_max |-> R(251, 10), temperature_min |-> R(120, 10),
     precipitation_probability |-> Num(0), precipitation_intensity |-> Num(0),
     humidity |-> Num(40), uv_index |-> Num(7), pressure |-> Num(1020),
     icon |-> "clear-day", precipitation_type |-> "none", wind_speed |-> Num(2),
     wind_direction |-> Num(0), timestamp |-> "2024-01-16T00:00:00Z"]

DaySnow ==
    [temperature_max |-> R(-5, 10), temperature_min |-> R(-81, 10),
     precipitation_probability |-> R(7, 10), precipitation_intensity |-> R(12, 10),
     humidity |-> Num(88), uv_index |-> Num(1), pressure |-> Num(995),
     icon |-> "snow", precipitation_type |-> "snow", wind_speed |-> R(75, 10),
     wind_direction |-> Num(315), timestamp |-> "2024-01-15T09:05:00Z"]

\* a body that is null, or an object whose list member (forecast, data, alerts,
\* stations or cells: `list` here) is missing or an array
ListBodies(S, n) ==
    {JsonNull, [tag |-> "object", list |-> Undefined]}
        \cup {[tag |-> "object", list |-> Arr(xs)] : xs \in SeqsUpTo(S, n)}

HourlyBodies == ListBodies({HourCalm, HourRain}, MaxForecast)
DailyBodies == ListBodies({DaySunny, DaySnow}, MaxForecast)

\* historical points are observations
HistoricalBodies == ListBodies(Observations, MaxList)
\* ... and histories long enough to have more points than are listed: all the
\* points of one kind, or the first one, or all but the last ones, of another
LongHistoricalBodies ==
    HistoricalBodies
        \cup {[tag |-> "object", list |-> Arr([i \in 1..n |-> IF i <= k THEN early ELSE late])] :
                 n \in 0..MaxHistory, k \in {0, 1, MaxHistory - 1}, early \in Observations,
                 late \in Observations}

AlertFlood ==
    [id |-> "a1", type |-> "flood", severity |-> "severe", title |-> "Flood Warning",
     description |-> "River levels rising.", effective |-> "2024-01-15T09:05:00Z",
     expires |-> "2024-01-16T00:00:00Z", areas |-> <<"Attica", "Boeotia">>]

AlertWind ==
    [id |-> "a2", type |-> "wind", severity |-> "moderate", title |-> "Wind Advisory",
     description |-> "Gusts up to 20 m/s.", effective |-> "2024-01-15T14:30:00Z",
     expires |-> "2024-01-16T00:00:00Z", areas |-> <<>>]

AlertsBodies == ListBodies({AlertFlood, AlertWind}, MaxList)

StationA ==
    [id |-> "WXM123456", name |-> "Athens Rooftop", cellIndex |-> "871fb4662ffffff",
     location |-> Location1, createdAt |-> "2024-01-15T09:05:00Z"]

StationB ==
    [id |-> "station_123", name |-> "Harbour", cellIndex |-> "871fb4660ffffff",
     location |-> [tag |-> "object", lat |-> R(-3390, 100), lon |-> R(1512093, 10000),
                   elevation |-> R(35, 10)],
     createdAt |-> "2024-01-15T14:30:00Z"]

StationsBodies == ListBodies({StationA, StationB}, MaxList)

Cell1 == [index |-> "871fb4662ffffff", center |-> Location1, station_count |-> Num(3)]
Cell2 ==
    [index |-> "871fb4660ffffff",
     center |-> [tag |-> "object", lat |-> Num(38), lon |-> R(-235, 10), elevation |-> Num(0)],
     station_count |-> Num(1)]

CellsBodies == ListBodies({Cell1, Cell2}, MaxList)

\* the bodies of /stations/search: `results` missing, or a page whose `stations`
\* may be missing
SearchBodies ==
    {JsonNull, [tag |-> "object", results |-> Undefined]} \cup
    {[tag |-> "object",
      results |-> [tag |-> "object", stations |-> st, total |-> Num(tot),
                   page |-> Num(pg), limit |-> Num(lim)]] :
        st \in {Undefined} \cup {Arr(xs) : xs \in SeqsUpTo({StationA, StationB}, MaxList)},
        tot \in {0, 1, 10, 11, 21}, pg \in {1}, lim \in {0, 1, 10}}

Bodies(t) ==
    CASE t \in {"get_current_weather", "get_station_health", "get_station_local_time"} ->
            LatestBodies
      [] t = "get_hourly_forecast" -> HourlyBodies
      [] t = "get_daily_forecast" -> DailyBodies
      [] t = "get_historical_weather" -> HistoricalBodies
      [] t = "get_weather_alerts" -> AlertsBodies
      [] t = "find_weather_stations" -> StationsBodies
      [] t = "search_weather_stations" -> SearchBodies
      [] t = "get_weather_cells" -> CellsBodies

-----------------------------------------------------------------------------
(* Tool handlers: what each renders from the parsed body *)

\* the handler's return value
Return(chunks) == [kind |-> "return", content |-> <<[type |-> "text", text |-> chunks]>>]

\* the passes of the loop taken from the last element to the first
Appended_Reversed(passes) ==
    LET RECURSIVE reversed(_)
        reversed(xs) == IF xs = <<>> THEN <<>> ELSE reversed(Tail(xs)) \o Head(xs)
    IN reversed(passes)

RECURSIVE Appended(_)
\* the fragments a for-of loop appends: those of each pass, in order
Appended(passes) ==
    IF passes = <<>> THEN <<>> ELSE Head(passes) \o Appended(Tail(passes))

\* Array.prototype.slice(start) for a negative start
SliceFromEnd(xs, count) ==
    SubSeq(xs, (IF Len(xs) > count THEN Len(xs) - count ELSE 0) + 1, Len(xs))

RECURSIVE JoinWith(_, _)
\* Array.prototype.join
JoinWith(xs, sep) ==
    IF xs = <<>> THEN ""
    ELSE IF Len(xs) = 1 THEN xs[1]
    ELSE xs[1] \o sep \o JoinWith(Tail(xs), sep)

Percent(x) == toFixed(Mul(x, Num(100)), 0)

RenderCurrentWeather(a, data, nowMs) ==
    IF data.tag = "null" THEN PropertyOfNull("observation")
    ELSE LET obs == data.observation
             location == data.location
             health == data.health
         IN IF IsUndef(location) THEN PropertyOfUndefined("lat")
            ELSE IF IsUndef(obs) THEN PropertyOfUndefined("timestamp")
            ELSE IF IsUndef(health) THEN PropertyOfUndefined("data_quality")
            ELSE Return(
                <<"# Current Weather\n\n",
                  "**Station ID:** " \o a.station_id \o "\n",
                  "**Location:** " \o toFixed(location.lat, 4) \o ", "
                        \o toFixed(location.lon, 4) \o "\n",
                  "**Elevation:** " \o NumStr(location.elevation) \o "m\n\n",
                  "**Observed:** " \o formatLocalTime(obs.timestamp) \o " - "
                        \o formatTimeAgo(obs.timestamp, nowMs) \o "\n\n",
                  "**Temperature:** " \o formatTemperature(obs.temperature) \o "\n",
                  "**Feels Like:** " \o formatTemperature(obs.feels_like) \o "\n",
                  "**Conditions:** " \o getWeatherIconDescription(obs.icon) \o "\n",
                  "**Humidity:** " \o toFixed(obs.humidity, 0) \o "%\n",
                  "**Dew Point:** " \o formatTemperature(obs.dew_point) \o "\n",
                  "**Wind:** " \o formatWindSpeed(obs.wind_speed) \o " from "
                        \o getWindDirection(obs.wind_direction) \o " ("
                        \o NumStr(obs.wind_direction) \o "°)\n">>
                \o (IF Gt(obs.wind_gust, obs.wind_speed)
                    THEN <<"**Wind Gust:** " \o formatWindSpeed(obs.wind_gust) \o "\n">>
                    ELSE <<>>)
                \o <<"**Pressure:** " \o formatPressure(obs.pressure) \o "\n">>
                \o (IF Gt(obs.uv_index, Num(0))
                    THEN <<"**UV Index:** " \o toFixed(obs.uv_index, 1) \o "\n">>
                    ELSE <<>>)
                \o (IF Gt(obs.solar_irradiance, Num(0))
                    THEN <<"**Solar Irradiance:** " \o toFixed(obs.solar_irradiance, 0)
                            \o " W/m²\n">>
                    ELSE <<>>)
                \o (IF Gt(obs.precipitation_rate, Num(0))
                    THEN <<"**Precipitation Rate:** "
                            \o formatPrecipitation(obs.precipitation_rate) \o "/hr\n">>
                    ELSE <<>>)
                \o (IF Gt(obs.precipitation_accumulated, Num(0))
                    THEN <<"**Precipitation Accumulated:** "
                            \o formatPrecipitation(obs.precipitation_accumulated) \o "\n">>
                    ELSE <<>>)
                \o <<"\n**Data Quality Score:** " \o Percent(health.data_quality.score)
                        \o "%\n">>)

HourlySection(hour) ==
    <<"## " \o formatLocalTime(hour.timestamp) \o "\n\n",
      "**Temperature:** " \o formatTemperature(hour.temperature) \o "\n",
      "**Feels Like:** " \o formatTemperature(hour.feels_like) \o "\n",
      "**Conditions:** " \o getWeatherIconDescription(hour.icon) \o "\n",
      "**Precipitation:** " \o formatPrecipitation(hour.precipitation) \o " ("
            \o Percent(hour.precipitation_probability) \o "% chance)\n",
      "**Wind:** " \o formatWindSpeed(hour.wind_speed) \o " from "
            \o getWindDirection(hour.wind_direction) \o "\n",
      "**Humidity:** " \o toFixed(hour.humidity, 0) \o "%\n",
      "**Pressure:** " \o formatPressure(hour.pressure) \o "\n",
      "**UV Index:** " \o toFixed(hour.uv_index, 1) \o "\n\n",
      "---\n\n">>

\* RenderHourlyForecast without the test for an empty array
RenderHourlyForecast_NoEmptyCheck(a, data) ==
    IF data.tag = "null" THEN PropertyOfNull("forecast")
    ELSE Return(
            <<"# Hourly Forecast - " \o a.station_id \o "\n\n",
              "Forecast for the next " \o NumStr(a.hours) \o " hours\n\n">>
            \o Appended([i \in DOMAIN OrEmpty(data.list) |-> HourlySection(OrEmpty(data.list)[i])]))

RenderHourlyForecast(a, data) ==
    IF data.tag = "null" THEN PropertyOfNull("forecast")
    ELSE LET forecast == OrEmpty(data.list)
         IN IF Len(forecast) = 0
            THEN Return(<<"No hourly forecast available for station " \o a.station_id>>)
            ELSE Return(
                <<"# Hourly Forecast - " \o a.station_id \o "\n\n",
                  "Forecast for the next " \o NumStr(a.hours) \o " hours\n\n">>
                \o Appended([i \in DOMAIN forecast |-> HourlySection(forecast[i])]))

DailySection(day) ==
    <<"## " \o formatLocalTime(day.timestamp) \o "\n\n",
      "**High:** " \o formatTemperature(day.temperature_max) \o "\n",
      "**Low:** " \o formatTemperature(day.temperature_min) \o "\n",
      "**Conditions:** " \o getWeatherIconDescription(day.icon) \o "\n",
      "**Precipitation:** " \o Percent(day.precipitation_probability) \o "% chance, "
            \o day.precipitation_type \o "\n",
      "**Wind:** " \o formatWindSpeed(day.wind_speed) \o " from "
            \o getWindDirection(day.wind_direction) \o "\n",
      "**Humidity:** " \o toFixed(day.humidity, 0) \o "%\n",
      "**Pressure:** " \o formatPressure(day.pressure) \o "\n",
      "**UV Index:** " \o toFixed(day.uv_index, 1) \o "\n\n",
      "---\n\n">>

RenderDailyForecast(a, data) ==
    IF data.tag = "null" THEN PropertyOfNull("forecast")
    ELSE LET forecast == OrEmpty(data.list)
         IN IF Len(forecast) = 0
            THEN Return(<<"No daily forecast available for station " \o a.station_id>>)
            ELSE Return(
                <<"# Daily Forecast - " \o a.station_id \o "\n\n",
                  "Forecast for the next " \o NumStr(a.days) \o " days\n\n">>
                \o Appended([i \in DOMAIN forecast |-> DailySection(forecast[i])]))

RECURSIVE MaxOf(_)
\* Math.max(...xs), xs not empty
MaxOf(xs) ==
    IF Len(xs) = 1 THEN xs[1]
    ELSE LET m == MaxOf(Tail(xs)) IN IF Gt(xs[1], m) THEN xs[1] ELSE m

RECURSIVE MinOf(_)
\* Math.min(...xs), xs not empty
MinOf(xs) ==
    IF Len(xs) = 1 THEN xs[1]
    ELSE LET m == MinOf(Tail(xs)) IN IF Gt(m, xs[1]) THEN xs[1] ELSE m

RECURSIVE SumFrom(_, _)
\* xs.reduce((a, b) => a + b, acc)
SumFrom(acc, xs) == IF xs = <<>> THEN acc ELSE SumFrom(Add(acc, Head(xs)), Tail(xs))

HistoryLine(obs) ==
    <<"**" \o formatLocalTime(obs.timestamp) \o ":** " \o formatTemperature(obs.temperature)
        \o ", " \o toFixed(obs.humidity, 0) \o "% humidity, "
        \o formatWindSpeed(obs.wind_speed) \o "\n">>

\* the first ten points instead of the last ten: historicalData.slice(0, 10)
RecentData_First(historicalData) ==
    SubSeq(historicalData, 1, IF Len(historicalData) > 10 THEN 10 ELSE Len(historicalData))

\* the points listed under "Recent Observations": historicalData.slice(-10)
RecentData(historicalData) == SliceFromEnd(historicalData, 10)

RenderHistoricalWeather(a, data) ==
    IF data.tag = "null" THEN PropertyOfNull("data")
    ELSE LET historicalData == OrEmpty(data.list)
         IN IF Len(historicalData) = 0
            THEN Return(<<"No historical data available for station " \o a.station_id
                            \o " between " \o a.start_date \o " and " \o a.end_date>>)
            ELSE LET temperatures ==
                        [i \in 1..Len(historicalData) |-> historicalData[i].temperature]
                     maxTemp == MaxOf(temperatures)
                     minTemp == MinOf(temperatures)
                     avgTemp == Div(SumFrom(Num(0), temperatures), Num(Len(temperatures)))
                     precipTotal ==
                        SumFrom(Num(0), [i \in 1..Len(historicalData) |->
                                            historicalData[i].precipitation_accumulated])
                 IN Return(
                    <<"# Historical Weather Data - " \o a.station_id \o "\n\n",
                      "Period: " \o a.start_date \o " to " \o a.end_date \o "\n",
                      "Data points: " \o ToString(Len(historicalData)) \o "\n\n",
                      "## Summary Statistics\n\n",
                      "**Temperature Range:** " \o formatTemperature(minTemp) \o " to "
                            \o formatTemperature(maxTemp) \o "\n",
                      "**Average Temperature:** " \o formatTemperature(avgTemp) \o "\n",
                      "**Total Precipitation:** " \o formatPrecipitation(precipTotal)
                            \o "\n\n",
                      "## Recent Observations\n\n">>
                    \o Appended([i \in DOMAIN RecentData(historicalData) |->
                                    HistoryLine(RecentData(historicalData)[i])]))

AlertSection(alert) ==
    <<"## " \o alert.title \o "\n\n",
      "**Type:** " \o alert.type \o "\n",
      "**Severity:** " \o alert.severity \o "\n",
      "**Effective:** " \o formatLocalTime(alert.effective) \o "\n",
      "**Expires:** " \o formatLocalTime(alert.expires) \o "\n",
      "**Areas:** " \o JoinWith(alert.areas, ", ") \o "\n\n",
      alert.description \o "\n\n",
      "---\n\n">>

RenderWeatherAlerts(a, data) ==
    IF data.tag = "null" THEN PropertyOfNull("alerts")
    ELSE LET alerts == OrEmpty(data.list)
         IN IF Len(alerts) = 0
            THEN Return(<<"No active weather alerts for location " \o NumStr(a.latitude)
                            \o ", " \o NumStr(a.longitude)>>)
            ELSE Return(
                <<"# Weather Alerts\n\n",
                  "Location: " \o NumStr(a.latitude) \o ", " \o NumStr(a.longitude) \o "\n",
                  "Active alerts: " \o ToString(Len(alerts)) \o "\n\n">>
                \o Appended([i \in DOMAIN alerts |-> AlertSection(alerts[i])]))

FoundStationSection(station) ==
    <<"## " \o station.name \o "\n\n",
      "**Station ID:** " \o station.id \o "\n",
      "**Name:** " \o station.name \o "\n",
      "**Location:** " \o toFixed(station.location.lat, 4) \o ", "
            \o toFixed(station.location.lon, 4) \o "\n",
      "**Elevation:** " \o NumStr(station.location.elevation) \o "m\n",
      "**Created:** " \o formatLocalTime(station.createdAt) \o "\n",
      "**Cell Index:** " \o station.cellIndex \o "\n",
      "\n---\n\n">>

RenderFindStations(a, data) ==
    IF data.tag = "null" THEN PropertyOfNull("stations")
    ELSE LET stations == OrEmpty(data.list)
         IN IF Len(stations) = 0
            THEN Return(<<"# WeatherXM Stations\n\nNo weather stations found within "
                            \o NumStr(a.radius) \o "km of " \o NumStr(a.latitude) \o ", "
                            \o NumStr(a.longitude) \o ".">>)
            ELSE Return(
                <<"# WeatherXM Stations Near " \o NumStr(a.latitude) \o ", "
                        \o NumStr(a.longitude) \o "\n\n",
                  "Found " \o ToString(Len(stations)) \o " station(s) within "
                        \o NumStr(a.radius) \o "km\n\n">>
                \o Appended([i \in DOMAIN stations |-> FoundStationSection(stations[i])]))

SearchStationSection(station) ==
    <<"## " \o station.name \o "\n\n",
      "**Station ID:** " \o station.id \o "\n",
      "**Location:** " \o toFixed(station.location.lat, 4) \o ", "
            \o toFixed(station.location.lon, 4) \o "\n",
      "**Elevation:** " \o NumStr(station.location.elevation) \o "m\n",
      "**Created:** " \o formatLocalTime(station.createdAt) \o "\n",
      "**Cell Index:** " \o station.cellIndex \o "\n",
      "\n---\n\n">>

\* `${Math.ceil(total / limit)}`: a division by zero gives Infinity or NaN
\* a page count that rounds down: Math.floor for Math.ceil
PageCount_Floor(total, limit) ==
    IF limit.n = 0
    THEN (IF total.n = 0 THEN "NaN" ELSE IF total.n > 0 THEN "Infinity" ELSE "-Infinity")
    ELSE ToString(total.n \div limit.n)

PageCount(total, limit) ==
    IF limit.n = 0
    THEN (IF total.n = 0 THEN "NaN" ELSE IF total.n > 0 THEN "Infinity" ELSE "-Infinity")
    ELSE ToString(MathCeil(Div(total, limit)))

RenderSearchStations(a, data) ==
    IF data.tag = "null" THEN PropertyOfNull("results")
    ELSE LET results == data.results
         IN IF IsUndef(results) THEN PropertyOfUndefined("stations")
            ELSE LET stations == OrEmpty(results.stations)
                 IN IF Len(stations) = 0
                    THEN Return(<<"No weather stations found matching \""
                                    \o UnitsText(a.query) \o "\"">>)
                    ELSE Return(
                        <<"# Weather Station Search Results\n\n",
                          "Query: \"" \o UnitsText(a.query) \o "\"\n",
                          "Found " \o NumStr(results.total) \o " total stations\n",
                          "Page " \o NumStr(results.page) \o " of "
                                \o PageCount(results.total, results.limit) \o "\n\n">>
                        \o Appended([i \in DOMAIN stations |-> SearchStationSection(stations[i])]))

CellSection(cell) ==
    <<"## Cell " \o cell.index \o "\n\n",
      "**Center:** " \o toFixed(cell.center.lat, 4) \o ", "
            \o toFixed(cell.center.lon, 4) \o "\n",
      "**Elevation:** " \o NumStr(cell.center.elevation) \o "m\n",
      "**Stations:** " \o NumStr(cell.station_count) \o "\n",
      "\n---\n\n">>

\* RenderWeatherCells without the test for an empty array
RenderWeatherCells_NoEmptyCheck(a, data) ==
    IF data.tag = "null" THEN PropertyOfNull("cells")
    ELSE Return(
            <<"# WeatherXM Cells Near " \o NumStr(a.latitude) \o ", "
                    \o NumStr(a.longitude) \o "\n\n",
              "Found " \o ToString(Len(OrEmpty(data.list))) \o " cell(s) within "
                    \o NumStr(a.radius) \o "km\n\n">>
            \o Appended([i \in DOMAIN OrEmpty(data.list) |-> CellSection(OrEmpty(data.list)[i])]))

RenderWeatherCells(a, data) ==
    IF data.tag = "null" THEN PropertyOfNull("cells")
    ELSE LET cells == OrEmpty(data.list)
         IN IF Len(cells) = 0
            THEN Return(<<"No weather cells found within " \o NumStr(a.radius) \o "km of "
                            \o NumStr(a.latitude) \o ", " \o NumStr(a.longitude)>>)
            ELSE Return(
                <<"# WeatherXM Cells Near " \o NumStr(a.latitude) \o ", "
                        \o NumStr(a.longitude) \o "\n\n",
                  "Found " \o ToString(Len(cells)) \o " cell(s) within "
                        \o NumStr(a.radius) \o "km\n\n">>
                \o Appended([i \in DOMAIN cells |-> CellSection(cells[i])]))

\* HealthAssessment with strict comparisons (> for >=)
HealthAssessment_Strict(score) ==
    IF Gt(score, R(8, 10)) THEN "**Overall Assessment:** Excellent data quality\n"
    ELSE IF Gt(score, R(6, 10)) THEN "**Overall Assessment:** Good data quality\n"
    ELSE IF Gt(score, R(4, 10)) THEN "**Overall Assessment:** Fair data quality\n"
    ELSE "**Overall Assessment:** Poor data quality - use with caution\n"

\* the quality interpretation of get_station_health
HealthAssessment(score) ==
    IF Ge(score, R(8, 10)) THEN "**Overall Assessment:** Excellent data quality\n"
    ELSE IF Ge(score, R(6, 10)) THEN "**Overall Assessment:** Good data quality\n"
    ELSE IF Ge(score, R(4, 10)) THEN "**Overall Assessment:** Fair data quality\n"
    ELSE "**Overall Assessment:** Poor data quality - use with caution\n"

RenderStationHealth(a, data) ==
    IF data.tag = "null" THEN PropertyOfNull("health")
    ELSE LET health == data.health
             location == data.location
         IN IF IsUndef(location) THEN PropertyOfUndefined("lat")
            ELSE IF IsUndef(health) THEN PropertyOfUndefined("timestamp")
            ELSE Return(
                <<"# Station Health - " \o a.station_id \o "\n\n",
                  "**Location:** " \o toFixed(location.lat, 4) \o ", "
                        \o toFixed(location.lon, 4) \o "\n",
                  "**Elevation:** " \o NumStr(location.elevation) \o "m\n\n",
                  "**Health Check:** " \o formatLocalTime(health.timestamp) \o "\n\n",
                  "**Data Quality Score:** " \o Percent(health.data_quality.score) \o "%\n",
                  "**Location Quality Score:** " \o Percent(health.location_quality.score)
                        \o "%\n",
                  "**Location Quality Reason:** " \o health.location_quality.reason \o "\n\n",
                  HealthAssessment(health.data_quality.score)>>)

\* Date.prototype.getTimezoneOffset, in minutes, in a host whose time zone is UTC
getTimezoneOffset(ms) == 0 * ms

RenderStationLocalTime(a, data, nowMs) ==
    IF data.tag = "null" THEN PropertyOfNull("location")
    ELSE LET location == data.location
         IN IF IsUndef(data.observation) THEN PropertyOfUndefined("timestamp")
            ELSE LET stationTimezone == getTimezoneOffset(DateParse(data.observation.timestamp))
                     localTime == nowMs - (stationTimezone * 60 * 1000)
                 IN IF IsUndef(location) THEN PropertyOfUndefined("lat")
                    ELSE Return(
                        <<"Current local time at station " \o a.station_id \o " ("
                            \o toFixed(location.lat, 4) \o ", " \o toFixed(location.lon, 4)
                            \o "): " \o ToLocaleString(localTime)>>)

\* the body of the handler's try block after `await weatherxmApiRequest(...)`
Render(t, a, data, nowMs) ==
    CASE t = "get_current_weather" -> RenderCurrentWeather(a, data, nowMs)
      [] t = "get_hourly_forecast" -> RenderHourlyForecast(a, data)
      [] t = "get_daily_forecast" -> RenderDailyForecast(a, data)
      [] t = "get_historical_weather" -> RenderHistoricalWeather(a, data)
      [] t = "get_weather_alerts" -> RenderWeatherAlerts(a, data)
      [] t = "find_weather_stations" -> RenderFindStations(a, data)
      [] t = "search_weather_stations" -> RenderSearchStations(a, data)
      [] t = "get_weather_cells" -> RenderWeatherCells(a, data)
      [] t = "get_station_health" -> RenderStationHealth(a, data)
      [] t = "get_station_local_time" -> RenderStationLocalTime(a, data, nowMs)

\* a catch block that returns the message without the "Error: " prefix
HandlerCatch_NoPrefix(e) ==
    Return(<<IF e.isError THEN e.message ELSE "Unknown error">>)

\* the catch block every handler ends with
HandlerCatch(e) ==
    Return(<<"Error: " \o (IF e.isError THEN e.message ELSE "Unknown error")>>)

\* a handler without the try/catch: what its body throws leaves the handler
TryCatch_NoCatch(outcome) == outcome

\* the handler's try/catch: whatever its body throws becomes a returned text
TryCatch(outcome) ==
    IF outcome.kind = "throw" THEN HandlerCatch(outcome.error) ELSE outcome

-----------------------------------------------------------------------------
(* The inputs: tool calls, and what fetch may do *)

ApiKeys == {"wxm-key-1"}
StationIds == {"WXM123456", "station_123"}
Latitudes == {R(407128, 10000)}
Longitudes == {R(-740060, 10000), Num(0)}

\* "athens", "new york", a rain cloud (a surrogate pair), a lone high surrogate
Queries ==
    {<<97, 116, 104, 101, 110, 115>>,
     <<110, 101, 119, 32, 121, 111, 114, 107>>,
     <<55356, 57127>>,
     <<55356>>}

\* the parameters a caller may pass, the optional ones possibly left out, the
\* numeric ones inside and outside the documented range
RawArgs(t) ==
    CASE t \in {"get_current_weather", "get_station_health", "get_station_local_time"} ->
            [station_id : StationIds]
      [] t = "get_hourly_forecast" ->
            [station_id : StationIds, hours : {Omitted, Num(24), Num(100)}]
      [] t = "get_daily_forecast" ->
            [station_id : StationIds, days : {Omitted, Num(3), Num(0)}]
      [] t = "get_historical_weather" ->
            [station_id : {"WXM123456"}, start_date : {"2024-01-01"},
             end_date : {"2024-01-07"}]
      [] t = "get_weather_alerts" ->
            [latitude : Latitudes, longitude : Longitudes]
      [] t \in {"find_weather_stations", "get_weather_cells"} ->
            [latitude : Latitudes, longitude : Longitudes,
             radius : {Omitted, R(255, 10), Num(500)}]
      [] t = "search_weather_stations" ->
            [query : Queries, page : {Omitted, Num(2)}, limit : {Omitted, Num(100)}]

\* HTTP statuses and reason phrases the upstream (or a proxy before it) may send:
\* the reason phrase is free text, and empty over HTTP/2
ErrorStatuses == {300, 400, 401, 403, 404, 429, 500, 503}
StatusTexts == {"", "Bad Gateway", "Upstream fetch failed"}
Responses ==
    {[status |-> 200, statusText |-> "OK"], [status |-> 299, statusText |-> ""]}
        \cup [status : ErrorStatuses, statusText : StatusTexts]

\* what fetch rejects with when the request fails in transport (DNS, connection,
\* timeout): Node's fetch rejects with TypeError "fetch failed"
FetchErrors == {Err("TypeError", "fetch failed")}

\* what response.json() rejects with: the connection lost while the body is read
\* (Node's fetch: TypeError "terminated"), or a body that is not JSON
BodyReadErrors == {Err("TypeError", "terminated")}
BodyParseErrors ==
    {Err("SyntaxError", "Unexpected end of JSON input"),
     Err("SyntaxError", "Unexpected token 'e', \"fetch failed\" is not valid JSON")}

\* the instants the clock may show while a document is rendered
NowSamples == {52200000 + 59999, 52200000 + 60000, 52200000 + 3600000, 86400000 + 3660000}

\* the handlers that read the clock
ClockTools == {"get_current_weather", "get_station_local_time"}

NoResponse == [status |-> 0, statusText |-> ""]
NoArgs == [none |-> TRUE]

-----------------------------------------------------------------------------
(* The state machine of one invocation *)

\* no call of getWindDirection under way
NoWind == [start |-> Num(0), degrees |-> Num(0), direction |-> "", previous |-> "", turns |-> 0]

InitServer ==
    /\ config \in [apiKey : ApiKeys]
    /\ pc = "idle"
    /\ tool = ""
    /\ supplied = NoArgs
    /\ args = NoArgs
    /\ requests = <<>>
    /\ response = NoResponse
    /\ event = "none"
    /\ apiOutcome = Pending
    /\ tried = Pending
    /\ result = Pending
    /\ now = 0
    /\ upstream = <<>>

\* no call of a formatting helper under way
NoHelper == [fn |-> "", arg |-> "", now |-> 0, ret |-> Pending]

Init == InitServer /\ others = <<>> /\ wind = NoWind /\ helper = NoHelper

\* the protocol layer calls a tool's handler: the handler builds the endpoint and
\* weatherxmApiRequest calls fetch; an exception building the endpoint goes to the
\* handler's catch before any request is made
Invoke(t, raw) ==
    /\ pc = "idle"
    /\ LET a == ParseArgs(t, raw)
           endpoint == Endpoint(t, a)
       IN /\ tool' = t
          /\ supplied' = raw
          /\ args' = a
          /\ IF endpoint.kind = "throw"
             THEN /\ tried' = endpoint
                  /\ result' = TryCatch(endpoint)
                  /\ pc' = "done"
                  /\ UNCHANGED requests
             ELSE /\ requests' = Append(requests, FetchCall(endpoint.value, config.apiKey))
                  /\ pc' = "awaitFetch"
                  /\ UNCHANGED <<tried, result>>
    /\ UNCHANGED <<others, wind, helper, config, response, event, apiOutcome, now, upstream>>

\* fetch rejects and the request is made again
FetchReject_Retrying(e) ==
    /\ pc = "awaitFetch"
    /\ event' = "fetchRejected"
    /\ requests' = Append(requests, requests[1])
    /\ UNCHANGED <<others, wind, helper, config, pc, tool, supplied, args, response, apiOutcome,
                   tried, result, now, upstream>>

\* fetch rejects: the request failed in transport, or was never sent because a
\* header of it is not valid
FetchReject(e) ==
    /\ pc = "awaitFetch"
    /\ LET value == requests[Len(requests)].headers.XApiKey
       IN IF isValidHeaderValue(value) THEN e \in FetchErrors ELSE e = InvalidHeaderValue(value)
    /\ event' = "fetchRejected"
    /\ upstream' = Append(upstream, e)
    /\ apiOutcome' = ApiOnFetchRejected(e)
    /\ tried' = apiOutcome'
    /\ result' = TryCatch(tried')
    /\ pc' = "done"
    /\ UNCHANGED <<others, wind, helper, config, tool, supplied, args, requests, response, now>>

\* fetch resolves with a response; one that is not ok is thrown at once, an ok one
\* has its body read
FetchRespond(status, statusText) ==
    /\ pc = "awaitFetch"
    /\ isValidHeaderValue(requests[Len(requests)].headers.XApiKey)
    /\ response' = [status |-> status, statusText |-> statusText]
    /\ upstream' = Append(upstream, response')
    /\ IF ResponseOk(status)
       THEN /\ event' = "okStatus"
            /\ pc' = "awaitJson"
            /\ UNCHANGED <<apiOutcome, tried, result>>
       ELSE /\ event' = "errorStatus"
            /\ apiOutcome' = ApiOnErrorStatus(status, statusText)
            /\ tried' = apiOutcome'
            /\ result' = TryCatch(tried')
            /\ pc' = "done"
    /\ UNCHANGED <<others, wind, helper, config, tool, supplied, args, requests, now>>

\* response.json() rejects
JsonReject(e) ==
    /\ pc = "awaitJson"
    /\ event' = IF e \in BodyReadErrors THEN "bodyReadFailed" ELSE "bodyNotJson"
    /\ upstream' = Append(upstream, e)
    /\ apiOutcome' = ApiOnJsonRejected(e)
    /\ tried' = apiOutcome'
    /\ result' = TryCatch(tried')
    /\ pc' = "done"
    /\ UNCHANGED <<others, wind, helper, config, tool, supplied, args, requests, response, now>>

\* response.json() resolves: weatherxmApiRequest returns the value and the handler
\* renders it
JsonResolve(data, nowMs) ==
    /\ pc = "awaitJson"
    /\ event' = "json"
    /\ apiOutcome' = ApiOnJson(data)
    /\ now' = nowMs
    /\ upstream' = Append(upstream, data)
    /\ tried' = Render(tool, args, apiOutcome'.value, nowMs)
    /\ result' = TryCatch(tried')
    /\ pc' = "done"
    /\ UNCHANGED <<others, wind, helper, config, tool, supplied, args, requests, response>>

\* the result is handed to the protocol layer; the server is ready for the next call
Finish ==
    /\ pc = "done"
    /\ pc' = "idle"
    /\ tool' = ""
    /\ supplied' = NoArgs
    /\ args' = NoArgs
    /\ requests' = <<>>
    /\ response' = NoResponse
    /\ event' = "none"
    /\ apiOutcome' = Pending
    /\ tried' = Pending
    /\ result' = Pending
    /\ now' = 0
    /\ upstream' = <<>>
    /\ UNCHANGED <<others, wind, helper, config>>

\* the steps of the server when the tools called are `ts` and the upstream's
\* bodies for tool t are B(t)
Step(ts, B) ==
    \/ \E t \in ts : \E raw \in RawArgs(t) : Invoke(t, raw)
    \/ \E e \in FetchErrors \cup {InvalidHeaderValue(config.apiKey)} : FetchReject(e)
    \/ \E r \in Responses : FetchRespond(r.status, r.statusText)
    \/ \E e \in BodyReadErrors \cup BodyParseErrors : JsonReject(e)
    \/ /\ pc = "awaitJson"
       /\ \E data \in B[tool] :
            \E nowMs \in (IF tool \in ClockTools THEN NowSamples ELSE {now}) :
                JsonResolve(data, nowMs)
    \/ Finish

Next == Step(Tools, [t \in Tools |-> Bodies(t)])

Spec == Init /\ [][Next]_vars

\* the request of the invocation under way completes or fails: fetch settles, and
\* the body of an ok response is read or fails to be read
UpstreamSettles ==
    \/ \E e \in FetchErrors \cup {InvalidHeaderValue(config.apiKey)} : FetchReject(e)
    \/ \E r \in Responses : FetchRespond(r.status, r.statusText)
    \/ \E e \in BodyReadErrors \cup BodyParseErrors : JsonReject(e)
    \/ /\ pc = "awaitJson"
       /\ \E data \in Bodies(tool) :
            \E nowMs \in (IF tool \in ClockTools THEN NowSamples ELSE {now}) :
                JsonResolve(data, nowMs)

\* the server when no request stays unanswered for ever
SpecLive == Spec /\ WF_vars(UpstreamSettles)

(* Several invocations at a time. Every handler is an async function: it runs
   from one await to the next without interruption, and while it waits (for fetch,
   for response.json()) the event loop may run another handler. The variables above
   are the invocation running now; `others` holds the ones that wait, each with its
   own parameters and locals. *)

\* the running invocation: the handler's parameters and locals, the configuration
\* of the server it was registered on
Frame ==
    [config |-> config, pc |-> pc, tool |-> tool, supplied |-> supplied, args |-> args,
     requests |-> requests, response |-> response, event |-> event,
     apiOutcome |-> apiOutcome, tried |-> tried, result |-> result, now |-> now,
     upstream |-> upstream]

\* the result kept in one place for all invocations
Switch_SharedResult(i) ==
    /\ i \in DOMAIN others
    /\ others' = [others EXCEPT ![i] = Frame]
    /\ config' = others[i].config
    /\ pc' = others[i].pc
    /\ tool' = others[i].tool
    /\ supplied' = others[i].supplied
    /\ args' = others[i].args
    /\ requests' = others[i].requests
    /\ response' = others[i].response
    /\ event' = others[i].event
    /\ apiOutcome' = others[i].apiOutcome
    /\ tried' = others[i].tried
    /\ now' = others[i].now
    /\ upstream' = others[i].upstream
    /\ UNCHANGED <<result, wind, helper>>

\* the running invocation has reached an await (or has returned, or has not been
\* called yet) and the event loop goes on with invocation i
Switch(i) ==
    /\ i \in DOMAIN others
    /\ others' = [others EXCEPT ![i] = Frame]
    /\ config' = others[i].config
    /\ pc' = others[i].pc
    /\ tool' = others[i].tool
    /\ supplied' = others[i].supplied
    /\ args' = others[i].args
    /\ requests' = others[i].requests
    /\ response' = others[i].response
    /\ event' = others[i].event
    /\ apiOutcome' = others[i].apiOutcome
    /\ tried' = others[i].tried
    /\ result' = others[i].result
    /\ now' = others[i].now
    /\ upstream' = others[i].upstream
    /\ UNCHANGED <<wind, helper>>

\* two servers created, the second with one of the keys `keys`; no tool called yet
InitTwo(keys) ==
    /\ InitServer
    /\ others \in {<<[Frame EXCEPT !.config = [apiKey |-> k]]>> : k \in keys}
    /\ wind = NoWind
    /\ helper = NoHelper

\* two invocations of the alerts and health tools under way at a time, their
\* requests answered in any order; the bodies of /latest are the ones with a
\* location and without an observation, which the health tool does not read
NextConcurrent ==
    \/ Step({"get_weather_alerts", "get_station_health"},
            [t \in {"get_weather_alerts", "get_station_health"} |->
                IF t = "get_weather_alerts" THEN Bodies(t)
                ELSE {JsonNull} \cup {b \in Bodies(t) \ {JsonNull} :
                                        IsUndef(b.observation) /\ ~IsUndef(b.location)}])
    \/ \E i \in DOMAIN others : Switch(i)

SpecConcurrent == InitTwo(ApiKeys) /\ [][NextConcurrent]_vars

\* keys a second server may be configured with: another key, and one with a line
\* feed inside (the configuration schema takes any string)
OtherApiKeys == {"wxm-key-2", "wxm\nkey-3"}

\* two runs that differ only in the API key: the first is made with the first
\* server and returns; the second is made with the second server, called with the
\* same tool and parameters, and meets the same clock and the same upstream: fetch
\* and response.json() settle as they did for the first run, unless fetch refuses
\* a key that is no header value
NextKeys ==
    \/ others[1].pc = "idle" /\ Next
    \/ {pc, others[1].pc} = {"idle", "done"} /\ Switch(1)
    \/ /\ others[1].pc = "done"
       /\ LET first == others[1]
              k == Len(upstream) + 1
              settled == first.upstream[k]
              rejections == FetchErrors \cup BodyReadErrors \cup BodyParseErrors
          IN \/ Invoke(first.tool, first.supplied)
             \/ FetchReject(InvalidHeaderValue(config.apiKey))
             \/ k <= Len(first.upstream) /\ settled \in rejections /\ FetchReject(settled)
             \/ k <= Len(first.upstream) /\ settled \in Responses
                    /\ FetchRespond(settled.status, settled.statusText)
             \/ k <= Len(first.upstream) /\ settled \in rejections /\ JsonReject(settled)
             \/ k <= Len(first.upstream) /\ settled \notin rejections
                    /\ JsonResolve(settled, first.now)
             \/ Finish

SpecKeys == InitTwo(OtherApiKeys) /\ [][NextKeys]_vars

\* the server called for historical data only, the upstream holding long histories
NextHistory ==
    Step({"get_historical_weather"}, [t \in {"get_historical_weather"} |-> LongHistoricalBodies])
SpecHistory == Init /\ [][NextHistory]_vars

(* getWindDirection on its own: a bearing is drawn, the function is applied to it,
   the bearing is advanced by a full turn and the function applied again. *)
MaxUlps == 2
MaxTurns == 1

\* quarter degrees in [0, 360), and the doubles within MaxUlps units of one
WindDegrees ==
    {R(q, 4) : q \in 0..1439}
        \cup {Near(R(q, 4), k) : q \in 1..1439, k \in (-MaxUlps)..MaxUlps}

InitWind ==
    /\ InitServer
    /\ others = <<>>
    /\ helper = NoHelper
    /\ wind \in {[start |-> x, degrees |-> x, direction |-> "", previous |-> "", turns |-> 0] :
                    x \in WindDegrees}

CallGetWindDirection ==
    /\ wind.direction = ""
    /\ wind' = [wind EXCEPT !.direction = getWindDirection(wind.degrees)]
    /\ UNCHANGED <<config, pc, tool, supplied, args, requests, response, event, apiOutcome,
                   tried, result, now, upstream, others, helper>>

\* the caller goes on to degrees + 360
FullTurn ==
    /\ wind.direction # ""
    /\ wind.turns < MaxTurns
    /\ wind' = [wind EXCEPT !.degrees = DoubleAdd(@, Num(360)),
                            !.previous = wind.direction,
                            !.direction = "",
                            !.turns = @ + 1]
    /\ UNCHANGED <<config, pc, tool, supplied, args, requests, response, event, apiOutcome,
                   tried, result, now, upstream, others, helper>>

NextWind == CallGetWindDirection \/ FullTurn

SpecWind == InitWind /\ [][NextWind]_vars

(* The other formatting helpers on their own: a call is drawn, the function is
   applied to its argument. *)

\* the icon codes an observation may carry: the eleven of iconMap, codes it does
\* not list, and names every object inherits
MaxHours == 2

HelperCalls ==
    {[fn |-> "getWeatherIconDescription", arg |-> icon, now |-> 0, ret |-> Pending] :
        icon \in {"clear-day", "clear-night", "partly-cloudy-day", "partly-cloudy-night",
                  "cloudy", "fog", "rain", "sleet", "snow", "wind", "thunderstorm",
                  "", "hail", "Rain", "clear", "tornado", "constructor", "toString",
                  "valueOf"}}
    \cup
    {[fn |-> "formatTimeAgo", arg |-> timestamp, now |-> DateParse(timestamp) + elapsed,
      ret |-> Pending] :
        timestamp \in {"2024-01-15T09:05:00Z", "2024-01-15T14:30:00Z", "2024-01-16T00:00:00Z"},
        \* the time between the observation and the call, in milliseconds: around
        \* every change of minute and of hour, and a clock behind the observation
        elapsed \in {h * 3600000 + m * 60000 + ms :
                        h \in 0..MaxHours, m \in {0, 1, 59}, ms \in {0, 1, 59999}}
                    \cup {-1, -60000}}
    \cup
    \* measurements as the upstream sends them, decimals of one to three places,
    \* among them the ones whose converted value is halfway between two roundings
    {[fn |-> "formatTemperature", arg |-> R(n, 100), now |-> 0, ret |-> Pending] :
        n \in (-4000..-3950) \cup (-10..40) \cup {-27315, 2150, 3775, 10000}}
    \cup
    {[fn |-> "formatWindSpeed", arg |-> R(n, 100), now |-> 0, ret |-> Pending] :
        n \in (0..30) \cup {320, 1000, 1850, 4470, 5000}}
    \cup
    {[fn |-> "formatPressure", arg |-> R(n, 100), now |-> 0, ret |-> Pending] :
        n \in (100000..100020) \cup {50000, 98760, 101325}}
    \cup
    {[fn |-> "formatPrecipitation", arg |-> R(n, 1000), now |-> 0, ret |-> Pending] :
        n \in {100 * i : i \in 0..30} \cup {127, 381, 1270, 12700, 25400, 50800}}

InitHelpers ==
    /\ InitServer
    /\ others = <<>>
    /\ wind = NoWind
    /\ helper \in HelperCalls

CallHelper ==
    /\ helper.fn # ""
    /\ helper.ret = Pending
    /\ helper' =
        [helper EXCEPT !.ret =
            Value(CASE helper.fn = "getWeatherIconDescription" ->
                            getWeatherIconDescription(helper.arg)
                    [] helper.fn = "formatTimeAgo" ->
                            formatTimeAgo(helper.arg, helper.now)
                    [] helper.fn = "formatTemperature" -> formatTemperature(helper.arg)
                    [] helper.fn = "formatWindSpeed" -> formatWindSpeed(helper.arg)
                    [] helper.fn = "formatPressure" -> formatPressure(helper.arg)
                    [] helper.fn = "formatPrecipitation" -> formatPrecipitation(helper.arg))]
    /\ UNCHANGED <<config, pc, tool, supplied, args, requests, response, event, apiOutcome,
                   tried, result, now, upstream, others, wind>>

SpecHelpers == InitHelpers /\ [][CallHelper]_vars

-----------------------------------------------------------------------------
(* Properties *)

\* the text the handler returned
ResultText == Join(result.content[1].text)

\* the parsed body weatherxmApiRequest returned
Data == apiOutcome.value

NonSuccess == response # NoResponse /\ response.status \notin 200..299

(* C1: for a response whose status is not a success, weatherxmApiRequest throws the
   error its status selects (401, 404, 429 and 500 each have a fixed message) and
   never returns a JSON value. *)
C1_StatusSelectsError ==
    NonSuccess =>
        /\ apiOutcome.kind = "throw"
        /\ apiOutcome.error.isError
        /\ response.status = 401 =>
            apiOutcome.error.message = "Invalid API key. Please check your WeatherXM API key."
        /\ response.status = 404 =>
            apiOutcome.error.message = "Station not found or no data available"
        /\ response.status = 429 =>
            apiOutcome.error.message = "API rate limit exceeded. Please try again later."
        /\ response.status = 500 =>
            apiOutcome.error.message = "WeatherXM service temporarily unavailable"

C1_Witness ==
    /\ response.status = 429
    /\ apiOutcome.kind = "throw"
    /\ apiOutcome.error.message = "API rate limit exceeded. Please try again later."

(* C2: for every status that is not a success and is none of 401, 404, 429 and 500,
   and for every status text, weatherxmApiRequest throws the error whose message is
   "WeatherXM API error: <status> <statusText>", and no other. *)
C2_UpstreamErrorCarriesStatus ==
    (NonSuccess /\ response.status \notin {401, 404, 429, 500}) =>
        apiOutcome =
            Throw(Err("Error", "WeatherXM API error: " \o ToString(response.status)
                                \o " " \o response.statusText))

(* C3: weatherxmApiRequest fails with the "Unable to connect" error whenever the
   request failed in transport (fetch rejected, or the connection was lost while the
   body was read), whatever message the failure carries, and only then. *)
C3_NetworkUnavailableIffTransport ==
    pc = "done" =>
        ((event \in {"fetchRejected", "bodyReadFailed"})
            <=> (/\ apiOutcome.kind = "throw"
                 /\ apiOutcome.error.message =
                        "Unable to connect to WeatherXM service. Please check your internet connection."))

(* C4: a handler never raises: whatever its try block throws (a failure of the API
   client, or any exception while rendering), it returns one text, "Error: "
   followed by the message of the error, or "Error: Unknown error" for a thrown
   value that is not an Error. *)
C4_HandlerNeverRaises ==
    /\ result.kind # "throw"
    /\ pc = "done" =>
        /\ result.kind = "return"
        /\ Len(result.content) = 1
        /\ result.content[1].type = "text"
        /\ tried.kind = "throw" =>
            ResultText = "Error: " \o (IF tried.error.isError THEN tried.error.message
                                       ELSE "Unknown error")

\* an exception thrown while rendering (not by the client) has been turned into text
C4_Witness ==
    /\ pc = "done"
    /\ event = "json"
    /\ tried.kind = "throw"
    /\ tried.error.name = "TypeError"
    /\ ResultText = "Error: Cannot read properties of undefined (reading 'lat')"

(* C5: on a 401 response the client throws the invalid-API-key error and
   get_current_weather returns exactly "Error: Invalid API key. Please check your
   WeatherXM API key.", whatever the station id. *)
C5_CurrentWeatherOn401 ==
    (tool = "get_current_weather" /\ response.status = 401) =>
        /\ apiOutcome =
            Throw(Err("Error", "Invalid API key. Please check your WeatherXM API key."))
        /\ result.kind = "return"
        /\ ResultText = "Error: Invalid API key. Please check your WeatherXM API key."

C5_Witness ==
    /\ tool = "get_current_weather"
    /\ args.station_id = "station_123"
    /\ response.status = 401
    /\ ResultText = "Error: Invalid API key. Please check your WeatherXM API key."

(* C6, as claimed: every finished invocation has made exactly one upstream request. *)
C6_ExactlyOneRequest == pc = "done" => Len(requests) = 1

(* C6, amended: an invocation never makes a second request, and a finished one has
   made exactly one, except search_weather_stations called with a query that holds
   an unpaired surrogate, which has made none. *)
C6_OneRequestUnlessQueryMalformed ==
    /\ Len(requests) <= 1
    /\ pc \in {"awaitFetch", "awaitJson"} => Len(requests) = 1
    /\ pc = "done" =>
        (Len(requests) = 0
            <=> (tool = "search_weather_stations" /\ ~IsWellFormed(args.query)))

\* a request that failed in transport was not repeated
C6_Witness ==
    /\ pc = "done"
    /\ event = "fetchRejected"
    /\ Len(requests) = 1

(* C7: given an empty forecast array in a successful response, get_hourly_forecast
   returns "No hourly forecast available for station <station_id>" and
   get_daily_forecast "No daily forecast available for station <station_id>". *)
C7_EmptyForecastMessage ==
    /\ (/\ pc = "done" /\ tool = "get_hourly_forecast" /\ event = "json"
        /\ Data.tag = "object" /\ Data.list = Arr(<<>>))
            => ResultText = "No hourly forecast available for station " \o args.station_id
    /\ (/\ pc = "done" /\ tool = "get_daily_forecast" /\ event = "json"
        /\ Data.tag = "object" /\ Data.list = Arr(<<>>))
            => ResultText = "No daily forecast available for station " \o args.station_id

C7_Witness ==
    /\ pc = "done"
    /\ tool = "get_hourly_forecast"
    /\ event = "json"
    /\ Data.tag = "object"
    /\ Data.list = Arr(<<>>)
    /\ ResultText = "No hourly forecast available for station station_123"

\* the fragments of a document after its fragment `marker`
RECURSIVE After(_, _)
After(chunks, marker) ==
    IF chunks = <<>> THEN <<>>
    ELSE IF Head(chunks) = marker THEN Tail(chunks)
    ELSE After(Tail(chunks), marker)

\* a successful response with a list of at least one element
HasList ==
    /\ pc = "done"
    /\ event = "json"
    /\ Data.tag = "object"
    /\ Data.list.tag = "array"
    /\ Len(Data.list.items) > 0

(* C8: for a history of N points, the "Recent Observations" section lists exactly
   min(N,10) entries: the last min(N,10) points of the array, in the array's order. *)
C8_RecentObservationsAreTheTail ==
    (tool = "get_historical_weather" /\ HasList) =>
        LET points == Data.list.items
            N == Len(points)
            k == IF N < 10 THEN N ELSE 10
            entries == After(result.content[1].text, "## Recent Observations\n\n")
        IN /\ Len(entries) = k
           /\ \A i \in 1..k : <<entries[i]>> = HistoryLine(points[N - k + i])

\* eleven points whose first differs from the rest: ten are listed, the first is not
C8_Witness ==
    /\ tool = "get_historical_weather"
    /\ HasList
    /\ Len(Data.list.items) = 11
    /\ Data.list.items[1] = ObsStorm
    /\ \A i \in 2..11 : Data.list.items[i] = ObsCalm
    /\ Len(After(result.content[1].text, "## Recent Observations\n\n")) = 10

(* C9: get_station_health renders exactly one overall-assessment line, chosen from
   the data-quality score s: s >= 0.8 Excellent, 0.6 <= s < 0.8 Good,
   0.4 <= s < 0.6 Fair, s < 0.4 Poor (use with caution). *)
C9_HealthLabelThresholds ==
    (pc = "done" /\ tool = "get_station_health" /\ tried.kind = "return") =>
        LET \* the score, a fraction s.n / s.d with s.d > 0
            s == Data.health.data_quality.score
            lines == SelectSeq(result.content[1].text,
                               LAMBDA c : Includes(c, "**Overall Assessment:**"))
        IN /\ Len(lines) = 1
           /\ lines[1] =
                (IF 10 * s.n >= 8 * s.d THEN "**Overall Assessment:** Excellent data quality\n"
                 ELSE IF 10 * s.n >= 6 * s.d THEN "**Overall Assessment:** Good data quality\n"
                 ELSE IF 10 * s.n >= 4 * s.d THEN "**Overall Assessment:** Fair data quality\n"
                 ELSE "**Overall Assessment:** Poor data quality - use with caution\n")

\* a score of exactly 0.8 has been rendered as Excellent
C9_Witness ==
    /\ pc = "done"
    /\ tool = "get_station_health"
    /\ tried.kind = "return"
    /\ Data.health.data_quality.score = R(80000, 100000)
    /\ Includes(ResultText, "**Overall Assessment:** Excellent data quality\n")

\* getWindDirection has returned, for wind.degrees, the label of the sector that
\* holds the bearing: the sixteen sectors are 22.5 degrees wide and centred on
\* 0, 22.5, 45, ..., the lower edge of a sector belonging to it
WindLabelOfSector ==
    wind.direction # "" =>
        LET x == wind.degrees
            labels == <<"N", "NNE", "NE", "ENE", "E", "ESE", "SE", "SSE",
                        "S", "SSW", "SW", "WSW", "W", "WNW", "NW", "NNW">>
        IN \E i \in 0..(16 * (MaxTurns + 1)) :
                /\ wind.direction = labels[(i % 16) + 1]
                /\ IF Ulps(x) >= 0
                   THEN (90 * i - 45) * x.d <= 4 * x.n /\ 4 * x.n < (90 * i + 45) * x.d
                   ELSE (90 * i - 45) * x.d < 4 * x.n /\ 4 * x.n <= (90 * i + 45) * x.d

(* C10, as claimed: for every d in [0,360), getWindDirection(d) is one of the 16
   labels, the one round(d/22.5) mod 16 selects, and
   getWindDirection(d) = getWindDirection(d + 360). *)
C10_PeriodicForEveryBearing ==
    /\ WindLabelOfSector
    /\ (wind.direction # "" /\ wind.previous # "") => wind.direction = wind.previous

(* C10, amended: for every d in [0,360), getWindDirection(d) is one of the 16
   labels, the one round(d/22.5) mod 16 selects; and
   getWindDirection(d) = getWindDirection(d + 360) for every d that is a multiple of
   a quarter of a degree (for other d the sum d + 360 is rounded, and may land on
   the other side of a sector's edge). *)
C10_PeriodicOnQuarterDegrees ==
    /\ WindLabelOfSector
    /\ (wind.direction # "" /\ wind.previous # "" /\ Ulps(wind.start) = 0)
            => wind.direction = wind.previous

\* 11.25, on the edge between N and NNE, is NNE before and after a full turn
C10_Witness ==
    /\ wind.start = R(45, 4)
    /\ wind.turns = 1
    /\ wind.previous = "NNE"
    /\ wind.direction = "NNE"

(* C11: getWeatherIconDescription maps each of the 11 known icon codes to its
   label and every other string to "Unknown". *)
C11_UnlistedIconIsUnknown ==
    (helper.fn = "getWeatherIconDescription" /\ helper.ret # Pending) =>
        helper.ret.value =
            (CASE helper.arg \in {"clear-day", "clear-night"} -> "Clear"
               [] helper.arg \in {"partly-cloudy-day", "partly-cloudy-night"} -> "Partly Cloudy"
               [] helper.arg = "cloudy" -> "Cloudy"
               [] helper.arg = "fog" -> "Foggy"
               [] helper.arg = "rain" -> "Rainy"
               [] helper.arg = "sleet" -> "Sleet"
               [] helper.arg = "snow" -> "Snowy"
               [] helper.arg = "wind" -> "Windy"
               [] helper.arg = "thunderstorm" -> "Thunderstorm"
               [] OTHER -> "Unknown")

(* C12: when at least one station is returned, search_weather_stations reports
   the total, the page and a page count P = ceil(total/limit): P * limit >= total
   and (P - 1) * limit < total, for every total >= 1 and limit >= 1. *)
C12_PageCountIsCeiling ==
    (/\ pc = "done" /\ tool = "search_weather_stations" /\ tried.kind = "return"
     /\ Len(OrEmpty(Data.results.stations)) > 0
     /\ Data.results.total.n >= 1 /\ Data.results.limit.n >= 1) =>
        LET total == Data.results.total.n
            limit == Data.results.limit.n
            page == Data.results.page.n
            text == result.content[1].text
        IN /\ \E i \in DOMAIN text : text[i] = "Found " \o ToString(total) \o " total stations\n"
           /\ \E i \in DOMAIN text : \E P \in 1..total :
                /\ text[i] = "Page " \o ToString(page) \o " of " \o ToString(P) \o "\n\n"
                /\ P * limit >= total
                /\ (P - 1) * limit < total

\* 21 stations in pages of 10 are 3 pages
C12_Witness ==
    /\ pc = "done" /\ tool = "search_weather_stations" /\ tried.kind = "return"
    /\ Len(OrEmpty(Data.results.stations)) > 0
    /\ Data.results.total = Num(21) /\ Data.results.limit = Num(10)
    /\ Includes(ResultText, "Found 21 total stations\nPage 1 of 3\n\n")

\* the given parameter of the call under way, or its default when the caller left
\* it out, as it is written in a query string
Passed(v, default) == IF v = Omitted THEN default ELSE NumStr(v)

EndsWith(str, suffix) ==
    /\ Len(str) >= Len(suffix)
    /\ SubSeq(str, Len(str) - Len(suffix) + 1, Len(str)) = suffix

(* C13: parameters are defaulted but never range-checked: an omitted hours is 48,
   days 7, radius 50, page 1, limit 10; any supplied number, inside or outside the
   documented range, is in the query string of the one upstream request unchanged,
   and the call is never rejected. *)
C13_DefaultedNotRangeChecked ==
    LET url == requests[1].url
        started == pc # "idle"
    IN /\ (started /\ tool = "get_hourly_forecast") =>
            /\ Len(requests) = 1
            /\ EndsWith(url, "/forecast/hourly?hours=" \o Passed(supplied.hours, "48"))
       /\ (started /\ tool = "get_daily_forecast") =>
            /\ Len(requests) = 1
            /\ EndsWith(url, "/forecast/daily?days=" \o Passed(supplied.days, "7"))
       /\ (started /\ tool \in {"find_weather_stations", "get_weather_cells"}) =>
            /\ Len(requests) = 1
            /\ EndsWith(url, "&radius=" \o Passed(supplied.radius, "50"))
       /\ (started /\ tool = "search_weather_stations" /\ Len(requests) > 0) =>
            /\ Len(requests) = 1
            /\ EndsWith(url, "&page=" \o Passed(supplied.page, "1")
                                \o "&limit=" \o Passed(supplied.limit, "10"))

\* hours = 100, outside 1-48, has gone upstream as it was given
C13_Witness ==
    /\ tool = "get_hourly_forecast"
    /\ supplied.hours = Num(100)
    /\ Len(requests) = 1
    /\ EndsWith(requests[1].url, "/stations/station_123/forecast/hourly?hours=100")

(* C14: formatTimeAgo returns "just now" when less than one whole minute has
   elapsed, "<m>m ago" for 1 <= m < 60 whole minutes, and from 60 minutes on
   "<h>h ago" when the minutes beyond the whole hours are 0, "<h>h <m>m ago" when
   they are not: one form for every elapsed time. *)
C14_TimeAgoForms ==
    (helper.fn = "formatTimeAgo" /\ helper.ret # Pending) =>
        LET observed == CASE helper.arg = "2024-01-15T09:05:00Z" -> 9 * 3600000 + 5 * 60000
                          [] helper.arg = "2024-01-15T14:30:00Z" -> 14 * 3600000 + 30 * 60000
                          [] helper.arg = "2024-01-16T00:00:00Z" -> 24 * 3600000
            elapsed == helper.now - observed
            text == helper.ret.value
        IN IF elapsed < 60000 THEN text = "just now"
           ELSE IF elapsed < 3600000
           THEN \E m \in 1..59 :
                    /\ m * 60000 <= elapsed /\ elapsed < (m + 1) * 60000
                    /\ text = ToString(m) \o "m ago"
           ELSE \E h \in 1..(MaxHours + 1) : \E m \in 0..59 :
                    /\ (60 * h + m) * 60000 <= elapsed
                    /\ elapsed < (60 * h + m + 1) * 60000
                    /\ text = (IF m = 0 THEN ToString(h) \o "h ago"
                               ELSE ToString(h) \o "h " \o ToString(m) \o "m ago")

\* one millisecond short of 2h 0m
C14_Witness ==
    /\ helper.fn = "formatTimeAgo"
    /\ helper.arg = "2024-01-15T14:30:00Z"
    /\ helper.now = 52200000 + 7199999
    /\ helper.ret = Value("1h 59m ago")

\* the numbers of k decimals nearest to a value x, given as x * 10^k = n/d (d > 0),
\* each as the integer m of m / 10^k and as its text: two when x is halfway between
\* two of them, and a zero may carry the sign of x
RoundedTo(n, d, k) ==
    LET floor == n \div d
        shown(m, neg) ==
            (IF neg THEN "-" ELSE "") \o ToString(Abs(m) \div Pow10(k)) \o "."
                \o PadLeft(ToString(Abs(m) % Pow10(k)), k)
        near == {m \in {floor, floor + 1} : 2 * Abs(n - m * d) <= d}
    IN {[m |-> m, text |-> shown(m, m < 0)] : m \in near}
        \cup {[m |-> m, text |-> shown(m, TRUE)] : m \in {m \in near : m = 0 /\ n < 0}}

(* C15: for every Celsius input c, formatTemperature(c) is "<F>°F (<C>°C)" where <C>
   is c rounded to one decimal and <F> is c * 9/5 + 32 rounded to one decimal: each is
   a one-decimal number nearest to the exact value. *)
C15_TemperatureBothUnitsRounded ==
    (helper.fn = "formatTemperature" /\ helper.ret # Pending) =>
        LET c == helper.arg
        IN \E F \in RoundedTo(18 * c.n + 320 * c.d, c.d, 1) : \E C \in RoundedTo(10 * c.n, c.d, 1) :
                helper.ret.value = F.text \o "°F (" \o C.text \o "°C)"

\* -39.75 C is -39.55 F, both halfway between two roundings
C15_Witness ==
    /\ helper.fn = "formatTemperature"
    /\ helper.arg = R(-3975, 100)
    /\ helper.ret = Value("-39.5°F (-39.8°C)")

(* C16: the unit conversions apply their fixed factor and round to their fixed number
   of decimals: precipitation mm / 25.4 to two decimals, pressure hPa * 0.02953 to two
   decimals, wind speed m/s * 2.237 to one decimal; formatPrecipitation(25.4) is
   "1.00 in", formatPressure(1013.25) is "29.92 inHg", formatWindSpeed(10) is
   "22.4 mph". *)
C16_ConversionsScaleAndRound ==
    LET x == helper.arg
        text == helper.ret.value
    IN /\ (helper.fn = "formatPrecipitation" /\ helper.ret # Pending) =>
            /\ \E inches \in RoundedTo(1000 * x.n, 254 * x.d, 2) : text = inches.text \o " in"
            /\ x = R(25400, 1000) => text = "1.00 in"
       /\ (helper.fn = "formatPressure" /\ helper.ret # Pending) =>
            /\ \E inHg \in RoundedTo(2953 * x.n, 1000 * x.d, 2) : text = inHg.text \o " inHg"
            /\ x = R(101325, 100) => text = "29.92 inHg"
       /\ (helper.fn = "formatWindSpeed" /\ helper.ret # Pending) =>
            /\ \E mph \in RoundedTo(2237 * x.n, 100 * x.d, 1) : text = mph.text \o " mph"
            /\ x = R(1000, 100) => text = "22.4 mph"

\* the standard atmosphere
C16_Witness ==
    /\ helper.fn = "formatPressure"
    /\ helper.arg = R(101325, 100)
    /\ helper.ret = Value("29.92 inHg")

\* the upstream answered with a success status and a body without one of the objects
\* the handler called reads
LacksExpectedObject ==
    /\ pc = "done"
    /\ event = "json"
    /\ \/ /\ tool \in {"get_current_weather", "get_station_health", "get_station_local_time",
                       "search_weather_stations"}
          /\ Data.tag = "null"
       \/ /\ tool = "get_current_weather"
          /\ Data.tag = "object"
          /\ IsUndef(Data.observation) \/ IsUndef(Data.location) \/ IsUndef(Data.health)
       \/ /\ tool = "get_station_health"
          /\ Data.tag = "object"
          /\ IsUndef(Data.location) \/ IsUndef(Data.health)
       \/ /\ tool = "get_station_local_time"
          /\ Data.tag = "object"
          /\ IsUndef(Data.observation) \/ IsUndef(Data.location)
       \/ /\ tool = "search_weather_stations"
          /\ Data.tag = "object"
          /\ IsUndef(Data.results)

(* C17: when the upstream answers with a success status but the body lacks an object
   the handler reads (observation, location or health of /latest, results of a
   search), the handler returns only one "Error: ..." line: it does not raise and
   returns no partly rendered document. *)
C17_MissingObjectIsOneErrorLine ==
    LacksExpectedObject =>
        /\ result.kind = "return"
        /\ Len(result.content) = 1
        /\ Len(result.content[1].text) = 1
        /\ SubSeq(ResultText, 1, 7) = "Error: "
        /\ ~Includes(ResultText, "\n")
        /\ ~Includes(ResultText, "#")

\* a search answered by an object without results
C17_Witness ==
    /\ LacksExpectedObject
    /\ tool = "search_weather_stations"
    /\ Data = [tag |-> "object", results |-> Undefined]
    /\ ResultText = "Error: Cannot read properties of undefined (reading 'stations')"

\* the number of lines of the returned document that begin with `label`
LinesLabelled(label) ==
    LET lines == result.content[1].text
    IN Cardinality({i \in DOMAIN lines :
            Len(lines[i]) >= Len(label) /\ SubSeq(lines[i], 1, Len(label)) = label})

(* C18: in the document of get_current_weather the Wind Gust line is present if and
   only if the gust is above the sustained wind speed; the UV Index, Solar
   Irradiance, Precipitation Rate and Precipitation Accumulated lines are each present
   if and only if their own value is above 0; the temperature, feels like, conditions,
   humidity, dew point, wind, pressure and data quality lines are always present. *)
C18_ConditionalWeatherLines ==
    (/\ pc = "done"
     /\ event = "json"
     /\ tool = "get_current_weather"
     /\ Data.tag = "object"
     /\ ~IsUndef(Data.observation) /\ ~IsUndef(Data.location) /\ ~IsUndef(Data.health)) =>
        LET obs == Data.observation
            Once(present) == IF present THEN 1 ELSE 0
        IN /\ LinesLabelled("**Wind Gust:** ")
                = Once(obs.wind_gust.n * obs.wind_speed.d > obs.wind_speed.n * obs.wind_gust.d)
           /\ LinesLabelled("**UV Index:** ") = Once(obs.uv_index.n > 0)
           /\ LinesLabelled("**Solar Irradiance:** ") = Once(obs.solar_irradiance.n > 0)
           /\ LinesLabelled("**Precipitation Rate:** ") = Once(obs.precipitation_rate.n > 0)
           /\ LinesLabelled("**Precipitation Accumulated:** ")
                = Once(obs.precipitation_accumulated.n > 0)
           /\ \A label \in {"**Temperature:** ", "**Feels Like:** ", "**Conditions:** ",
                             "**Humidity:** ", "**Dew Point:** ", "**Wind:** ",
                             "**Pressure:** ", "\n**Data Quality Score:** "} :
                    LinesLabelled(label) = 1

\* gusts below the wind speed, UV and accumulated rain but no irradiance and no rain
\* rate: two of the five lines
C18_Witness ==
    /\ pc = "done"
    /\ event = "json"
    /\ tool = "get_current_weather"
    /\ Data.tag = "object"
    /\ Data.observation = ObsAfterRain
    /\ result.kind = "return"
    /\ LinesLabelled("**Wind Gust:** ") = 0
    /\ LinesLabelled("**UV Index:** ") = 1
    /\ LinesLabelled("**Solar Irradiance:** ") = 0
    /\ LinesLabelled("**Precipitation Rate:** ") = 0
    /\ LinesLabelled("**Precipitation Accumulated:** ") = 1

(* C19: for a history of N >= 1 points get_historical_weather reports the minimum,
   the maximum and the arithmetic mean of the temperatures of all N points (not of
   the last 10 only) and the sum of precipitation_accumulated over all N points, and
   the reported minimum, mean and maximum are in this order: min <= mean <= max. *)
C19_StatisticsOverAllPoints ==
    (tool = "get_historical_weather" /\ HasList) =>
        LET points == Data.list.items
            N == Len(points)
            \* hundredths of a degree and of a millimetre
            temps == {(points[i].temperature.n * 100) \div points[i].temperature.d : i \in 1..N}
            min == CHOOSE t \in temps : \A u \in temps : t <= u
            max == CHOOSE t \in temps : \A u \in temps : t >= u
            RECURSIVE total(_, _)
            total(i, field) ==
                IF i = 0 THEN 0
                ELSE total(i - 1, field) + (points[i][field].n * 100) \div points[i][field].d
            lines == result.content[1].text
        IN \E minC \in RoundedTo(min, 10, 1), minF \in RoundedTo(18 * min + 32000, 100, 1),
              maxC \in RoundedTo(max, 10, 1), maxF \in RoundedTo(18 * max + 32000, 100, 1),
              avgC \in RoundedTo(total(N, "temperature"), 10 * N, 1),
              avgF \in RoundedTo(18 * total(N, "temperature") + 32000 * N, 100 * N, 1),
              rain \in RoundedTo(10 * total(N, "precipitation_accumulated"), 254, 2) :
                /\ lines[5] = "**Temperature Range:** " \o minF.text \o "°F (" \o minC.text
                                \o "°C) to " \o maxF.text \o "°F (" \o maxC.text \o "°C)\n"
                /\ lines[6] = "**Average Temperature:** " \o avgF.text \o "°F ("
                                \o avgC.text \o "°C)\n"
                /\ lines[7] = "**Total Precipitation:** " \o rain.text \o " in\n\n"
                /\ minC.m <= avgC.m /\ avgC.m <= maxC.m
                /\ minF.m <= avgF.m /\ avgF.m <= maxF.m

(* C20: for a forecast array of N >= 1 points get_hourly_forecast and
   get_daily_forecast render exactly N sections, in the order of the array as
   received: the k-th section is built from the k-th element; nothing is sorted,
   dropped or repeated. *)
C20_OneSectionPerPointInOrder ==
    (tool \in {"get_hourly_forecast", "get_daily_forecast"} /\ HasList) =>
        LET forecast == Data.list.items
            N == Len(forecast)
            lines == result.content[1].text
            \* what follows the title and the "Forecast for the next ..." line
            sections == SubSeq(lines, 3, Len(lines))
            Section(point) == IF tool = "get_hourly_forecast" THEN HourlySection(point)
                              ELSE DailySection(point)
            size == Len(Section(forecast[1]))
        IN /\ Len(sections) = N * size
           /\ Cardinality({i \in DOMAIN sections : SubSeq(sections[i], 1, 3) = "## "}) = N
           /\ \A k \in 1..N :
                SubSeq(sections, (k - 1) * size + 1, k * size) = Section(forecast[k])

\* two hours received latest first are rendered latest first
C20_Witness ==
    /\ tool = "get_hourly_forecast"
    /\ HasList
    /\ Data.list.items = <<HourCalm, HourRain>>
    /\ Len(result.content[1].text) = 22
    /\ result.content[1].text[4] = "**Temperature:** 70.7°F (21.5°C)\n"
    /\ result.content[1].text[14] = "**Temperature:** 46.0°F (7.8°C)\n"

\* a list tool other than the forecasts was answered with a success status and an
\* object whose list (data, alerts, stations, cells; for a search the stations of its
\* results) is an empty array or is not there
ListEmptyOrAbsent ==
    /\ pc = "done"
    /\ event = "json"
    /\ Data.tag = "object"
    /\ \/ /\ tool \in {"get_historical_weather", "get_weather_alerts",
                       "find_weather_stations", "get_weather_cells"}
          /\ IsUndef(Data.list) \/ Data.list = Arr(<<>>)
       \/ /\ tool = "search_weather_stations"
          /\ ~IsUndef(Data.results)
          /\ IsUndef(Data.results.stations) \/ Data.results.stations = Arr(<<>>)

(* C24: for get_historical_weather, get_weather_alerts, find_weather_stations,
   search_weather_stations and get_weather_cells, a successful response whose list
   is empty or absent gives the tool's own "No ..." message, which names the
   parameters of the request: one text, not an error line, and not the listing with
   its count line and no section. For a search this holds whatever total the
   response reports. *)
C24_EmptyListMessage ==
    ListEmptyOrAbsent =>
        /\ result.kind = "return"
        /\ Len(result.content) = 1
        /\ Len(result.content[1].text) = 1
        /\ SubSeq(ResultText, 1, 7) # "Error: "
        /\ ~Includes(ResultText, "## ")
        /\ ~Includes(ResultText, "Data points:")
        /\ ~Includes(ResultText, "Active alerts:")
        /\ ~Includes(ResultText, "Found ")
        /\ ~Includes(ResultText, "Page ")
        /\ CASE tool = "get_historical_weather" ->
                    /\ Includes(ResultText, "No historical data available")
                    /\ Includes(ResultText, "station " \o supplied.station_id)
                    /\ Includes(ResultText, "between " \o supplied.start_date \o " and "
                                                \o supplied.end_date)
             [] tool = "get_weather_alerts" ->
                    /\ Includes(ResultText, "No active weather alerts")
                    /\ Includes(ResultText, NumStr(supplied.latitude) \o ", "
                                                \o NumStr(supplied.longitude))
             [] tool = "find_weather_stations" ->
                    /\ Includes(ResultText, "No weather stations found")
                    /\ Includes(ResultText, NumStr(args.radius) \o "km of "
                                                \o NumStr(supplied.latitude) \o ", "
                                                \o NumStr(supplied.longitude))
             [] tool = "search_weather_stations" ->
                    /\ Includes(ResultText, "No weather stations found")
                    /\ Includes(ResultText, "\"" \o UnitsText(supplied.query) \o "\"")
             [] tool = "get_weather_cells" ->
                    /\ Includes(ResultText, "No weather cells found")
                    /\ Includes(ResultText, NumStr(args.radius) \o "km of "
                                                \o NumStr(supplied.latitude) \o ", "
                                                \o NumStr(supplied.longitude))

\* a search whose results report 21 stations and hold no list of them
C24_Witness ==
    /\ ListEmptyOrAbsent
    /\ tool = "search_weather_stations"
    /\ IsUndef(Data.results.stations)
    /\ Data.results.total = Num(21)
    /\ ResultText = "No weather stations found matching \"athens\""

\* the request of the invocation under way has resolved: fetch rejected, or answered
\* with an error status, or the body of an ok response was read or failed to be read
RequestResolved ==
    event \in {"fetchRejected", "errorStatus", "bodyReadFailed", "bodyNotJson", "json"}

(* C22: an invocation whose one upstream request eventually completes or fails
   eventually has a result; the result is there as soon as the request has resolved
   (the handler waits on nothing else) and never before; it is one text, and once
   returned it does not change. *)
C22_OneResultOnceRequestResolves ==
    /\ [](requests # <<>> => (result # Pending <=> RequestResolved))
    /\ [](result # Pending =>
            /\ result.kind = "return"
            /\ Len(result.content) = 1
            /\ result.content[1].type = "text")
    /\ [][result # Pending => (result' = result \/ pc' = "idle")]_vars
    /\ (Len(requests) = 1 /\ result = Pending) ~> (result # Pending)

\* get_station_health has returned its document after its request was answered
\* with a body
C22_Witness ==
    /\ pc = "done"
    /\ tool = "get_station_health"
    /\ Len(requests) = 1
    /\ event = "json"
    /\ result.kind = "return"
    /\ SubSeq(ResultText, 1, 16) = "# Station Health"

\* the text the other invocation returned
OtherText == Join(others[1].result.content[1].text)

\* the second run has returned: same tool, parameters, clock and upstream answers as
\* the first run, another key
SameRunOtherKey ==
    /\ pc = "done"
    /\ others[1].pc = "done"
    /\ config.apiKey # others[1].config.apiKey
    /\ tool = others[1].tool
    /\ supplied = others[1].supplied
    /\ now = others[1].now
    /\ upstream = others[1].upstream

(* C23: the configured key is the X-API-KEY header of every request and is nowhere
   else: it is not in the URL of a request, it is not in a text the server returns,
   and two runs that differ only in the key and meet the same upstream return the
   same text. *)
C23_KeyOnlyInHeader ==
    /\ \A i \in DOMAIN requests :
          /\ requests[i].headers.XApiKey = config.apiKey
          /\ ~Includes(requests[i].url, config.apiKey)
    /\ result # Pending => ~Includes(ResultText, config.apiKey)
    /\ SameRunOtherKey => ResultText = OtherText

\* what an invocation returns when it is the only one: the handler applied to its
\* parameters, its server's key, the clock it read and what its awaits settled with
RunAlone(f) ==
    LET a == ParseArgs(f.tool, f.supplied)
        endpoint == Endpoint(f.tool, a)
        u == f.upstream
        rejections == FetchErrors \cup BodyReadErrors \cup BodyParseErrors
    IN [requests |->
            IF endpoint.kind = "throw" THEN <<>>
            ELSE <<FetchCall(endpoint.value, f.config.apiKey)>>,
        result |->
            IF endpoint.kind = "throw" THEN TryCatch(endpoint)
            ELSE IF u = <<>> THEN Pending
            ELSE IF u[1] \in rejections THEN TryCatch(ApiOnFetchRejected(u[1]))
            ELSE IF ~ResponseOk(u[1].status)
                 THEN TryCatch(ApiOnErrorStatus(u[1].status, u[1].statusText))
            ELSE IF Len(u) = 1 THEN Pending
            ELSE IF u[2] \in rejections THEN TryCatch(ApiOnJsonRejected(u[2]))
            ELSE TryCatch(Render(f.tool, a, ApiOnJson(u[2]).value, f.now))]

\* the invocations under way
Invocations == {f \in {Frame} \cup {others[i] : i \in DOMAIN others} : f.pc # "idle"}

(* C21: however the steps of concurrent invocations interleave, and in whatever
   order their requests are answered, each invocation makes the request and returns
   the result it makes and returns when run alone with the same parameters and the
   same upstream answer; a step of one invocation leaves the parameters and locals
   of every other as they are, and resuming an invocation finds them as it left
   them. *)
C21_InvocationsAreIndependent ==
    /\ [](\A f \in Invocations :
            LET alone == RunAlone(f)
            IN f.requests = alone.requests /\ f.result = alone.result)
    /\ [][\/ others' = others
          \/ \E i \in DOMAIN others :
                /\ others' = [others EXCEPT ![i] = Frame]
                /\ Frame' = others[i]]_vars

\* get_weather_alerts has returned its document while the request of a concurrent
\* get_station_health was still unanswered
C21_Witness ==
    /\ pc = "done"
    /\ tool = "get_weather_alerts"
    /\ event = "json"
    /\ SubSeq(ResultText, 1, 16) = "# Weather Alerts"
    /\ others[1].tool = "get_station_health"
    /\ others[1].pc = "awaitFetch"

====
